---- MODULE Spec2Model ----
(***************************************************************************)
(* Arabic tech-term glossary: markdown parser, term validator, approver    *)
(* aggregation and index generation.                                       *)
(*                                                                         *)
(* Strings are sequences of UTF-16 code units (natural numbers), so that   *)
(* trim, startsWith, split, the title pattern, the Arabic ranges and the   *)
(* collation order are computed on characters as the code computes them.   *)
(* A JavaScript value whose type matters is a record [t |-> type, v |-> x].*)
(***************************************************************************)
EXTENDS Integers, Sequences, FiniteSets, TLC

VARIABLES
  \* parseMarkdown (src/src/lib/md-parser.ts)
  content, pc, n, line, result, currentSection, currentArabicWord, titleFound,
  \* history of the lines read so far: an H1 line was read; an H1 line that
  \* the title pattern matches was read
  h1Seen, h1Matched,
  \* one call of validateTermStructure (src/scripts/validate-terms.ts)
  vterm, vcontent, verrors, vpc,
  \* one call of validateFile
  file, fresult, fpc,
  \* one call of aggregateApprovers (src/scripts/generate-index.ts): the
  \* terms handed to it, as far as the loops have read them, the Map and
  \* the array returned
  aggTerms, approverCounts, approvers, apc,
  \* one call of generateIndex or of generateCategoriesIndex
  \* (src/scripts/generate-index.ts): which of the two, the entries
  \* Deno.readDir(dataDir) has yielded so far, the local arrays and the
  \* position of the call
  imode, listing, terms, categories, ipc,
  \* two calls of generateIndex on one directory: the listing each call
  \* was given and the terms each returned
  firstListing, firstTerms, secondListing, secondTerms, rpc,
  \* one call of generateAbbreviation (src/src/lib/md-parser.ts): the
  \* argument and the value returned
  gtitle, gabbrev, gpc,
  \* one call of isValidTerm (src/src/lib/md-parser.ts): the argument and the
  \* value returned
  qterm, qvalid, qpc,
  \* main --full (src/scripts/generate-index.ts): the entries the first loop
  \* has read, the files written, the entries generateCategoriesIndex has
  \* read, its categories, the position
  mlisting, writes, relisted, mcategories, mpc,
  \* main of validate-terms.ts: the arguments, what ./data is, the position
  \* in the arguments, the paths collected, the position in them, the
  \* results collected, the value returned, the position
  args, dataDir, argi, paths, pathi, allResults, exitCode, cpc

parserVars == <<content, pc, n, line, result, currentSection,
                currentArabicWord, titleFound, h1Seen, h1Matched>>

validatorVars == <<vterm, vcontent, verrors, vpc>>

fileVars == <<file, fresult, fpc>>

aggVars == <<aggTerms, approverCounts, approvers, apc>>

indexVars == <<imode, listing, terms, categories, ipc>>

rerunVars == <<firstListing, firstTerms, secondListing, secondTerms, rpc>>

abbrevVars == <<gtitle, gabbrev, gpc>>

gateVars == <<qterm, qvalid, qpc>>

fullVars == <<mlisting, writes, relisted, mcategories, mpc>>

cliVars == <<args, dataDir, argi, paths, pathi, allResults, exitCode, cpc>>

vars ==
  <<parserVars, validatorVars, fileVars, aggVars,
    indexVars, rerunVars, abbrevVars, gateVars, fullVars, cliVars>>

----------------------------------------------------------------------------
(* Bounds *)

\* number of lines of one document fed to the stepwise parser
MaxLines == 5

\* number of Arabic words of a term handed to the validator
MaxWords == 2

\* number of terms, words and approver entries handed to aggregateApprovers
MaxItems == 6

\* number of entries Deno.readDir(dataDir) yields
MaxEntries == 3

\* number of entries of the data directory in a run of main --full
MaxCategories == 2

\* number of command-line arguments of the validation CLI
MaxArgs == 3

\* number of pieces (tokens and whitespace) of a title handed to
\* generateAbbreviation
MaxParts == 4

----------------------------------------------------------------------------
(* Strings *)

SetMin(S) == CHOOSE x \in S : \A y \in S : x <= y
SetMax(S) == CHOOSE x \in S : \A y \in S : x >= y

\* ECMAScript WhiteSpace + LineTerminator: what trim() strips and \s matches
WhiteSpace ==
  {9, 10, 11, 12, 13, 32, 160, 5760, 8232, 8233, 8239, 8287, 12288, 65279}
    \cup (8192..8202)

IsWs(c) == c \in WhiteSpace

\* ECMAScript LineTerminator: what `.` does not match
IsLineTerminator(c) == c \in {10, 13, 8232, 8233}

\* String.prototype.trim
Trim(s) ==
  LET idx == {i \in 1..Len(s) : ~IsWs(s[i])}
  IN  IF idx = {} THEN <<>> ELSE SubSeq(s, SetMin(idx), SetMax(idx))

\* String.prototype.startsWith
StartsWith(s, p) == Len(s) >= Len(p) /\ SubSeq(s, 1, Len(p)) = p

\* String.prototype.endsWith
EndsWith(s, p) ==
  Len(s) >= Len(p) /\ SubSeq(s, Len(s) - Len(p) + 1, Len(s)) = p

\* toLowerCase / toUpperCase of one code unit (ASCII letters; the other
\* characters of the model have no case)
LowerChar(c) == IF c \in 65..90 THEN c + 32 ELSE c
UpperChar(c) == IF c \in 97..122 THEN c - 32 ELSE c
ToLower(s) == [i \in 1..Len(s) |-> LowerChar(s[i])]

\* String.prototype.toUpperCase: one code unit may become several; of the
\* characters of the model only U+00DF does, its upper case being "SS"
RECURSIVE ToUpperCase(_)
ToUpperCase(s) ==
  IF s = <<>> THEN <<>>
  ELSE (IF Head(s) = 223 THEN <<83, 83>> ELSE <<UpperChar(Head(s))>>)
         \o ToUpperCase(Tail(s))

\* content.split("\n"): always at least one piece
RECURSIVE SplitFrom(_, _, _, _)
SplitFrom(s, sep, i, cur) ==
  IF i > Len(s) THEN <<cur>>
  ELSE IF s[i] = sep THEN <<cur>> \o SplitFrom(s, sep, i + 1, <<>>)
  ELSE SplitFrom(s, sep, i + 1, Append(cur, s[i]))

SplitLines(s) == SplitFrom(s, 10, 1, <<>>)

\* title.split(/\s+/): pieces between maximal whitespace runs, the empty
\* leading/trailing pieces included
RECURSIVE SplitWsFrom(_, _, _)
SplitWsFrom(s, i, cur) ==
  IF i > Len(s) THEN <<cur>>
  ELSE IF IsWs(s[i])
    THEN LET rest == {j \in i..Len(s) : ~IsWs(s[j])}
             j == IF rest = {} THEN Len(s) + 1 ELSE SetMin(rest)
         IN  <<cur>> \o SplitWsFrom(s, j, <<>>)
    ELSE SplitWsFrom(s, i + 1, Append(cur, s[i]))

SplitWs(s) == SplitWsFrom(s, 1, <<>>)

\* Array.prototype.join with a separator string
RECURSIVE Join(_, _)
Join(ss, sep) ==
  IF ss = <<>> THEN <<>>
  ELSE IF Len(ss) = 1 THEN ss[1]
  ELSE ss[1] \o sep \o Join(Tail(ss), sep)

----------------------------------------------------------------------------
(* Literals of md-parser.ts *)

sH1          == <<35, 32>>                       \* "# "
sH2          == <<35, 35, 32>>                   \* "## "
sDash        == <<45, 32>>                       \* "- "
sDescription == <<35, 35, 32, 68, 101, 115, 99, 114, 105, 112, 116, 105, 111, 110>>
                                                 \* "## Description"
sTags        == <<35, 35, 32, 84, 97, 103, 115>> \* "## Tags"
sArabicWords == <<35, 32, 65, 114, 97, 98, 105, 99, 32, 87, 111, 114, 100, 115>>
                                                 \* "# Arabic Words"
sApprovedBy  == <<35, 35, 35, 32, 65, 112, 112, 114, 111, 118, 101, 100, 32, 66, 121>>
                                                 \* "### Approved By"

SectionState ==
  {"None", "Description", "Tags", "ArabicWords", "ApprovedBy", "Unknown"}

\* const result: ParsedTerm = { title: "", abbrev: "", ... }
EmptyResult ==
  [title |-> <<>>, abbrev |-> <<>>, description |-> <<>>,
   tags |-> <<>>, arabicWords |-> <<>>]

\* loop-local state of parseMarkdown; currentArabicWord is the position in
\* result.arabicWords of the record the reference points to, 0 for null
InitialParse ==
  [result |-> EmptyResult, currentSection |-> "None",
   currentArabicWord |-> 0, titleFound |-> FALSE, threw |-> FALSE]

----------------------------------------------------------------------------
(* generateAbbreviation *)

ignoreWords ==
  {<<116,104,101>>, <<97>>, <<97,110>>, <<105,110>>, <<111,110>>, <<97,116>>,
   <<102,111,114>>, <<119,105,116,104>>, <<98,121>>, <<97,110,100>>,
   <<111,114>>, <<97,115>>, <<105,115>>, <<97,114,101>>, <<119,97,115>>,
   <<119,101,114,101>>, <<98,101>>, <<98,101,101,110>>,
   <<98,101,105,110,103>>}

RECURSIVE Initials_KeepsStopWords(_)
Initials_KeepsStopWords(words) ==
  IF words = <<>> THEN <<>>
  ELSE LET w == Head(words)
       IN  IF Len(w) > 0
             THEN ToUpperCase(<<w[1]>>) \o Initials_KeepsStopWords(Tail(words))
             ELSE Initials_KeepsStopWords(Tail(words))

\* .filter(...).map((word) => word[0].toUpperCase()).join("")
RECURSIVE Initials(_)
Initials(words) ==
  IF words = <<>> THEN <<>>
  ELSE LET w == Head(words)
       IN  IF Len(w) > 0 /\ ToLower(w) \notin ignoreWords
             THEN ToUpperCase(<<w[1]>>) \o Initials(Tail(words))
             ELSE Initials(Tail(words))

\* generateAbbreviation of a string
generateAbbreviation(title) ==
  IF Trim(title) = <<>> THEN <<>> ELSE Initials(SplitWs(title))

\* generateAbbreviation of any value: typeof title !== "string" returns ""
generateAbbreviationOf(value) ==
  IF value.t # "string" THEN <<>> ELSE generateAbbreviation(value.v)

----------------------------------------------------------------------------
(* parseMarkdown, one line at a time *)

\* trimmed.match(/^# (.+?)(?:\s*\(([^)]+)\))?$/) for a trimmed line that
\* starts with "# ": the lazy group takes the shortest run of characters
\* other than line terminators after which the rest is empty or is
\* whitespace, "(", one or more non-")" characters, ")".
TitleMatch(trimmed) ==
  LET body == SubSeq(trimmed, 3, Len(trimmed))
      Rest(k) == SubSeq(body, k + 1, Len(body))
      Open(r) == SetMin({a \in 1..Len(r) : ~IsWs(r[a])})
      ParenOk(r) ==
        /\ \E a \in 1..Len(r) : ~IsWs(r[a])
        /\ r[Open(r)] = 40
        /\ Len(r) >= Open(r) + 2
        /\ r[Len(r)] = 41
        /\ \A j \in (Open(r) + 1)..(Len(r) - 1) : r[j] # 41
      Ks == {k \in 1..Len(body) :
               /\ \A j \in 1..k : ~IsLineTerminator(body[j])
               /\ (Rest(k) = <<>> \/ ParenOk(Rest(k)))}
  IN  IF Ks = {} THEN [ok |-> FALSE, g1 |-> <<>>, g2 |-> <<>>]
      ELSE LET k == SetMin(Ks)
               r == Rest(k)
           IN  [ok |-> TRUE,
                g1 |-> SubSeq(body, 1, k),
                g2 |-> IF r = <<>> THEN <<>>
                       ELSE SubSeq(r, Open(r) + 1, Len(r) - 1)]

\* an H1 line: "# X", not "## "
IsH1(trimmed) == StartsWith(trimmed, sH1) /\ ~StartsWith(trimmed, sH2)

IsTitleLine_NoLatch(p, trimmed) == IsH1(trimmed)

\* if (!titleFound && trimmed.startsWith("# ") && !trimmed.startsWith("## "))
IsTitleLine(p, trimmed) == ~p.titleFound /\ IsH1(trimmed)

ApplyTitle_NoMatchGuard(p, trimmed) ==
  LET match == TitleMatch(trimmed)
  IN  IF match.ok
        THEN [p EXCEPT !.result.title = Trim(match.g1),
                       !.result.abbrev = match.g2,
                       !.titleFound = TRUE,
                       !.currentSection = "None"]
        ELSE [p EXCEPT !.threw = TRUE]

\* the body of the title rule
ApplyTitle(p, trimmed) ==
  LET match == TitleMatch(trimmed)
  IN  IF match.ok
        THEN [p EXCEPT !.result.title = Trim(match.g1),
                       !.result.abbrev = match.g2,
                       !.titleFound = TRUE,
                       !.currentSection = "None"]
        ELSE [p EXCEPT !.currentSection = "None"]

ApplyListItem_ClosesTags(p, trimmed) ==
  LET item == Trim(SubSeq(trimmed, 3, Len(trimmed)))
  IN  IF p.currentSection = "Tags"
        THEN [p EXCEPT !.result.tags = Append(@, item),
                       !.currentSection = "None"]
      ELSE IF p.currentSection = "ApprovedBy" /\ p.currentArabicWord # 0
        THEN [p EXCEPT !.result.arabicWords[p.currentArabicWord].approvedBy =
                          Append(@, item)]
      ELSE p

ApplyListItem_TagsInUnknown(p, trimmed) ==
  LET item == Trim(SubSeq(trimmed, 3, Len(trimmed)))
  IN  IF p.currentSection \in {"Tags", "Unknown"}
        THEN [p EXCEPT !.result.tags = Append(@, item)]
      ELSE IF p.currentSection = "ApprovedBy" /\ p.currentArabicWord # 0
        THEN [p EXCEPT !.result.arabicWords[p.currentArabicWord].approvedBy =
                          Append(@, item)]
      ELSE p

ApplyListItem_IntoDescription(p, trimmed) ==
  LET item == Trim(SubSeq(trimmed, 3, Len(trimmed)))
  IN  IF p.currentSection = "Tags"
        THEN [p EXCEPT !.result.tags = Append(@, item)]
      ELSE IF p.currentSection = "ApprovedBy" /\ p.currentArabicWord # 0
        THEN [p EXCEPT !.result.arabicWords[p.currentArabicWord].approvedBy =
                          Append(@, item)]
      ELSE IF p.currentSection = "Description"
        THEN [p EXCEPT !.result.description = @ \o trimmed \o <<10>>]
      ELSE p

\* the `- ` list-item rule
ApplyListItem(p, trimmed) ==
  LET item == Trim(SubSeq(trimmed, 3, Len(trimmed)))
  IN  IF p.currentSection = "Tags"
        THEN [p EXCEPT !.result.tags = Append(@, item)]
      ELSE IF p.currentSection = "ApprovedBy" /\ p.currentArabicWord # 0
        THEN [p EXCEPT !.result.arabicWords[p.currentArabicWord].approvedBy =
                          Append(@, item)]
      ELSE p

ApplyArabicWord_Untrimmed(p, trimmed) ==
  LET word == SubSeq(trimmed, 4, Len(trimmed))
      pushed == Append(p.result.arabicWords,
                       [word |-> word, approvedBy |-> <<>>])
  IN  [p EXCEPT !.result.arabicWords = pushed,
                !.currentArabicWord = Len(pushed),
                !.currentSection = "ArabicWords"]

ApplyArabicWord_Prepends(p, trimmed) ==
  LET word == Trim(SubSeq(trimmed, 4, Len(trimmed)))
      pushed == <<[word |-> word, approvedBy |-> <<>>]>>
                  \o p.result.arabicWords
  IN  [p EXCEPT !.result.arabicWords = pushed,
                !.currentArabicWord = 1,
                !.currentSection = "ArabicWords"]

ApplyArabicWord_KeepsSection(p, trimmed) ==
  LET word == Trim(SubSeq(trimmed, 4, Len(trimmed)))
      pushed == Append(p.result.arabicWords,
                       [word |-> word, approvedBy |-> <<>>])
  IN  [p EXCEPT !.result.arabicWords = pushed,
                !.currentArabicWord = Len(pushed)]

\* the `## word` rule inside the Arabic Words section
ApplyArabicWord(p, trimmed) ==
  LET word == Trim(SubSeq(trimmed, 4, Len(trimmed)))
      pushed == Append(p.result.arabicWords,
                       [word |-> word, approvedBy |-> <<>>])
  IN  [p EXCEPT !.result.arabicWords = pushed,
                !.currentArabicWord = Len(pushed),
                !.currentSection = "ArabicWords"]

ProcessLine_ApprovedByUnguarded(p, l) ==
  LET trimmed == Trim(l)
  IN  IF trimmed = <<>> /\ p.currentSection # "Description" THEN p
      ELSE IF IsTitleLine(p, trimmed) THEN ApplyTitle(p, trimmed)
      ELSE IF trimmed = sDescription
        THEN [p EXCEPT !.currentSection = "Description",
                       !.result.description = <<>>]
      ELSE IF trimmed = sTags THEN [p EXCEPT !.currentSection = "Tags"]
      ELSE IF trimmed = sArabicWords
        THEN [p EXCEPT !.currentSection = "ArabicWords"]
      ELSE IF StartsWith(trimmed, sH2)
              /\ p.currentSection \in {"ArabicWords", "ApprovedBy"}
        THEN ApplyArabicWord(p, trimmed)
      ELSE IF trimmed = sApprovedBy
        THEN [p EXCEPT !.currentSection = "ApprovedBy"]
      ELSE IF StartsWith(trimmed, sDash) THEN ApplyListItem(p, trimmed)
      ELSE IF p.currentSection = "Description" /\ StartsWith(trimmed, sH2)
        THEN [p EXCEPT !.currentSection = "Unknown"]
      ELSE IF p.currentSection = "Description"
        THEN IF trimmed # <<>>
               THEN [p EXCEPT !.result.description = @ \o trimmed \o <<10>>]
               ELSE p
      ELSE p

ProcessLine_BlankLineBreak(p, l) ==
  LET trimmed == Trim(l)
  IN  IF trimmed = <<>> /\ p.currentSection # "Description" THEN p
      ELSE IF IsTitleLine(p, trimmed) THEN ApplyTitle(p, trimmed)
      ELSE IF trimmed = sDescription
        THEN [p EXCEPT !.currentSection = "Description",
                       !.result.description = <<>>]
      ELSE IF trimmed = sTags THEN [p EXCEPT !.currentSection = "Tags"]
      ELSE IF trimmed = sArabicWords
        THEN [p EXCEPT !.currentSection = "ArabicWords"]
      ELSE IF StartsWith(trimmed, sH2)
              /\ p.currentSection \in {"ArabicWords", "ApprovedBy"}
        THEN ApplyArabicWord(p, trimmed)
      ELSE IF trimmed = sApprovedBy /\ p.currentArabicWord # 0
        THEN [p EXCEPT !.currentSection = "ApprovedBy"]
      ELSE IF StartsWith(trimmed, sDash) THEN ApplyListItem(p, trimmed)
      ELSE IF p.currentSection = "Description" /\ StartsWith(trimmed, sH2)
        THEN [p EXCEPT !.currentSection = "Unknown"]
      ELSE IF p.currentSection = "Description"
        THEN [p EXCEPT !.result.description = @ \o trimmed \o <<10>>]
      ELSE p

\* the body of the for loop, for one line
ProcessLine(p, l) ==
  LET trimmed == Trim(l)
  IN  IF trimmed = <<>> /\ p.currentSection # "Description" THEN p
      ELSE IF IsTitleLine(p, trimmed) THEN ApplyTitle(p, trimmed)
      ELSE IF trimmed = sDescription
        THEN [p EXCEPT !.currentSection = "Description",
                       !.result.description = <<>>]
      ELSE IF trimmed = sTags THEN [p EXCEPT !.currentSection = "Tags"]
      ELSE IF trimmed = sArabicWords
        THEN [p EXCEPT !.currentSection = "ArabicWords"]
      ELSE IF StartsWith(trimmed, sH2)
              /\ p.currentSection \in {"ArabicWords", "ApprovedBy"}
        THEN ApplyArabicWord(p, trimmed)
      ELSE IF trimmed = sApprovedBy /\ p.currentArabicWord # 0
        THEN [p EXCEPT !.currentSection = "ApprovedBy"]
      ELSE IF StartsWith(trimmed, sDash) THEN ApplyListItem(p, trimmed)
      ELSE IF p.currentSection = "Description" /\ StartsWith(trimmed, sH2)
        THEN [p EXCEPT !.currentSection = "Unknown"]
      ELSE IF p.currentSection = "Description"
        THEN IF trimmed # <<>>
               THEN [p EXCEPT !.result.description = @ \o trimmed \o <<10>>]
               ELSE p
      ELSE p

PostPass_SingleWord(r) ==
  LET r1 == [r EXCEPT !.description = Trim(r.description)]
  IN  IF r1.abbrev = <<>> /\ r1.title # <<>>
        THEN [r1 EXCEPT !.abbrev = generateAbbreviation(r1.title)]
        ELSE r1

\* after the loop: trim the description, derive the abbreviation
PostPass(r) ==
  LET r1 == [r EXCEPT !.description = Trim(r.description)]
  IN  IF r1.abbrev = <<>> /\ r1.title # <<>>
        THEN LET words == SplitWs(Trim(r1.title))
             IN  IF Len(words) > 1
                   THEN [r1 EXCEPT !.abbrev = generateAbbreviation(r1.title)]
                   ELSE r1
        ELSE r1

RECURSIVE ParseLines(_, _)
ParseLines(p, ls) ==
  IF ls = <<>> \/ p.threw THEN p
  ELSE ParseLines(ProcessLine(p, Head(ls)), Tail(ls))

\* parseMarkdown as a function of a JavaScript value: [threw, term]
parseMarkdown(c) ==
  IF c.t # "string" THEN [threw |-> TRUE, term |-> EmptyResult]
  ELSE LET p == ParseLines(InitialParse, SplitLines(c.v))
       IN  IF p.threw THEN [threw |-> TRUE, term |-> EmptyResult]
           ELSE [threw |-> FALSE, term |-> PostPass(p.result)]

----------------------------------------------------------------------------
(* JavaScript values as the validator and the aggregator see them *)

Str(s) == [t |-> "string", v |-> s]
Arr(a) == [t |-> "array", v |-> a]
Undefined == [t |-> "undefined", v |-> <<>>]
\* a non-zero number: truthy, has no length
Number == [t |-> "number", v |-> <<>>]

\* !x for the values above
Falsy(x) == x.t \in {"undefined", "null"} \/ (x.t = "string" /\ x.v = <<>>)

\* the Term a caller of parseMarkdown receives
TermOf(r) ==
  [t |-> "object",
   title |-> Str(r.title),
   abbrev |-> r.abbrev,
   description |-> r.description,
   tags |-> Arr(r.tags),
   arabicWords |->
     Arr([i \in 1..Len(r.arabicWords) |->
            [word |-> r.arabicWords[i].word,
             approvedBy |-> Arr(r.arabicWords[i].approvedBy)]])]

NullTerm ==
  [t |-> "null", title |-> Undefined, abbrev |-> <<>>, description |-> <<>>,
   tags |-> Undefined, arabicWords |-> Undefined]

isValidTerm_NeedsTags(term) ==
  IF term.t \in {"null", "undefined"} THEN FALSE
  ELSE /\ term.title.t = "string"
       /\ Len(term.title.v) > 0
       /\ term.tags.t = "array"
       /\ Len(term.tags.v) > 0
       /\ term.arabicWords.t = "array"

\* isValidTerm: a primitive that is not null or undefined has no title
isValidTerm(term) ==
  IF term.t \in {"null", "undefined"} THEN FALSE
  ELSE /\ term.title.t = "string"
       /\ Len(term.title.v) > 0
       /\ term.tags.t = "array"
       /\ term.arabicWords.t = "array"

----------------------------------------------------------------------------
(* validate-terms.ts *)

IsArabicChar(c) ==
  \/ c \in 1536..1791       \* U+0600-U+06FF
  \/ c \in 1872..1919       \* U+0750-U+077F
  \/ c \in 2208..2303       \* U+08A0-U+08FF
  \/ c \in 64336..65023     \* U+FB50-U+FDFF
  \/ c \in 65136..65279     \* U+FE70-U+FEFF

containsArabic(text) == \E i \in 1..Len(text) : IsArabicChar(text[i])

\* the patterns findLineNumber is called with, tested on a trimmed line
PrefixPattern(s) == [kind |-> "prefix", s |-> s]    \* /^<s>/
ExactPattern(s)  == [kind |-> "exact", s |-> s]     \* /^<s>$/
AnyH2Pattern     == [kind |-> "h2any", s |-> sH2]   \* /^## .+$/

PatternTest(pattern, trimmed) ==
  IF pattern.kind = "prefix" THEN StartsWith(trimmed, pattern.s)
  ELSE IF pattern.kind = "exact" THEN trimmed = pattern.s
  ELSE /\ StartsWith(trimmed, sH2)
       /\ Len(trimmed) > Len(sH2)
       /\ \A j \in (Len(sH2) + 1)..Len(trimmed) : ~IsLineTerminator(trimmed[j])

\* the 1-based number of the occurrence-th matching line, 0 for undefined
findLineNumber(lines, pattern, occurrence) ==
  LET hits == {i \in 1..Len(lines) : PatternTest(pattern, Trim(lines[i]))}
      upTo(i) == Cardinality({j \in hits : j <= i})
      at == {i \in hits : upTo(i) = occurrence}
  IN  IF at = {} THEN 0 ELSE SetMin(at)

Message(text) == [text |-> text, n |-> 0, arg |-> <<>>]
MessageN(text, k, arg) == [text |-> text, n |-> k, arg |-> arg]

Error(filename, type, message, lineNo) ==
  [file |-> filename, type |-> type, message |-> message, line |-> lineNo]

sCommaSpace == <<44, 32>>                        \* ", "

\* the `if (!valid)` block; a null term makes term.title throw
StructureErrors(term, lines, filename) ==
  (IF Falsy(term.title) \/ (term.title.t \in {"string", "array"}
                              /\ Len(term.title.v) = 0)
     THEN <<Error(filename, "required",
                  Message("Missing or empty title (expected: # Title)"),
                  findLineNumber(lines, PrefixPattern(sH1), 1))>>
     ELSE <<>>)
  \o
  (IF term.tags.t # "array"
     THEN <<Error(filename, "required",
                  Message("Tags section missing or invalid (expected: ## Tags with list items)"),
                  findLineNumber(lines, ExactPattern(sTags), 1))>>
     ELSE <<>>)
  \o
  (IF term.arabicWords.t # "array"
     THEN <<Error(filename, "required",
                  Message("Arabic Words section missing or invalid (expected: # Arabic Words with ## Arabic Word subsections)"),
                  findLineNumber(lines, ExactPattern(sArabicWords), 1))>>
     ELSE <<>>)

DescriptionErrors(term, lines, filename) ==
  IF Trim(term.description) = <<>>
    THEN <<Error(filename, "required",
                 Message("Missing or empty description (expected: ## Description with Arabic content)"),
                 findLineNumber(lines, ExactPattern(sDescription), 1))>>
  ELSE IF ~containsArabic(term.description)
    THEN <<Error(filename, "content", Message("Description must be in Arabic"),
                 findLineNumber(lines, ExactPattern(sDescription), 1))>>
  ELSE <<>>

TagsErrors(term, lines, filename) ==
  LET tags == term.tags.v
      nonArabicTags == SelectSeq(tags, LAMBDA tag : ~containsArabic(tag))
  IN  IF Len(tags) = 0
        THEN <<Error(filename, "required",
                     Message("At least one tag is required (expected: - tagname in ## Tags section)"),
                     findLineNumber(lines, ExactPattern(sTags), 1))>>
      ELSE IF Len(nonArabicTags) > 0
        THEN <<Error(filename, "content",
                     MessageN("All tags must be in Arabic. Non-Arabic tags: {arg}",
                              0, Join(nonArabicTags, sCommaSpace)),
                     findLineNumber(lines, ExactPattern(sTags), 1))>>
      ELSE <<>>

\* the approver check of one word
ApproverErrors_OnlyForArabicWord(aw, lines, filename) ==
  IF Trim(aw.word) # <<>> /\ containsArabic(aw.word)
       /\ (Falsy(aw.approvedBy) \/ Len(aw.approvedBy.v) = 0)
    THEN <<Error(filename, "required",
                 MessageN("Arabic word \"{arg}\" must have at least one approver (expected: ### Approved By with - username)",
                          0, aw.word),
                 findLineNumber(lines, ExactPattern(sApprovedBy), 1))>>
    ELSE <<>>

ApproverErrors(aw, lines, filename) ==
  IF Falsy(aw.approvedBy) \/ Len(aw.approvedBy.v) = 0
    THEN <<Error(filename, "required",
                 MessageN("Arabic word \"{arg}\" must have at least one approver (expected: ### Approved By with - username)",
                          0, aw.word),
                 findLineNumber(lines, ExactPattern(sApprovedBy), 1))>>
    ELSE <<>>

\* the forEach callback, for the word at 0-based position index
WordErrors_AcceptsLatin(aw, index, lines, filename) ==
  (IF Trim(aw.word) = <<>>
     THEN <<Error(filename, "required",
                  MessageN("Arabic word #{n} is empty", index + 1, <<>>),
                  findLineNumber(lines, AnyH2Pattern, index + 1))>>
     ELSE <<>>)
  \o ApproverErrors(aw, lines, filename)

WordErrors(aw, index, lines, filename) ==
  (IF Trim(aw.word) = <<>>
     THEN <<Error(filename, "required",
                  MessageN("Arabic word #{n} is empty", index + 1, <<>>),
                  findLineNumber(lines, AnyH2Pattern, index + 1))>>
   ELSE IF ~containsArabic(aw.word)
     THEN <<Error(filename, "content",
                  MessageN("Arabic word #{n} must be in Arabic: \"{arg}\"",
                           index + 1, aw.word),
                  findLineNumber(lines, ExactPattern(sH2 \o aw.word), 1))>>
   ELSE <<>>)
  \o ApproverErrors(aw, lines, filename)

RECURSIVE WordsErrorsFrom(_, _, _, _)
WordsErrorsFrom(words, index, lines, filename) ==
  IF index >= Len(words) THEN <<>>
  ELSE WordErrors(words[index + 1], index, lines, filename)
         \o WordsErrorsFrom(words, index + 1, lines, filename)

ArabicWordsErrors(term, lines, filename) ==
  IF Len(term.arabicWords.v) = 0
    THEN <<Error(filename, "required",
                 Message("At least one Arabic word is required (expected: ## Arabic Word in # Arabic Words section)"),
                 findLineNumber(lines, ExactPattern(sArabicWords), 1))>>
    ELSE WordsErrorsFrom(term.arabicWords.v, 0, lines, filename)

validateTermStructure_NoEarlyReturn(term, text, filename) ==
  LET lines == SplitLines(text)
      checks == DescriptionErrors(term, lines, filename)
                   \o TagsErrors(term, lines, filename)
                   \o ArabicWordsErrors(term, lines, filename)
  IN  IF ~isValidTerm(term)
        THEN IF term.t \in {"null", "undefined"}
               THEN [threw |-> TRUE, errors |-> <<>>]
               ELSE [threw |-> FALSE,
                     errors |-> StructureErrors(term, lines, filename)
                                  \o checks]
        ELSE [threw |-> FALSE, errors |-> checks]

\* validateTermStructure: [threw, errors]
validateTermStructure(term, text, filename) ==
  LET lines == SplitLines(text)
  IN  IF ~isValidTerm(term)
        THEN IF term.t \in {"null", "undefined"}
               THEN [threw |-> TRUE, errors |-> <<>>]
               ELSE [threw |-> FALSE,
                     errors |-> StructureErrors(term, lines, filename)]
        ELSE [threw |-> FALSE,
              errors |-> DescriptionErrors(term, lines, filename)
                           \o TagsErrors(term, lines, filename)
                           \o ArabicWordsErrors(term, lines, filename)]

----------------------------------------------------------------------------
(* validateFile *)

\* a path that cannot be read, or a file with its text
Unreadable == [readable |-> FALSE, text |-> <<>>]
FileWith(text) == [readable |-> TRUE, text |-> text]

NoData == [title |-> <<>>, abbrev |-> <<>>, tagsCount |-> 0,
           arabicWordsCount |-> 0]

Invalid(filename, errors) ==
  [valid |-> FALSE, file |-> filename, errors |-> errors,
   hasData |-> FALSE, data |-> NoData]

validateFile_NoOuterCatch(f, filename) ==
  IF ~f.readable THEN [threw |-> TRUE, result |-> Invalid(filename, <<>>)]
  ELSE
    LET parsed == parseMarkdown(Str(f.text))
        checked == validateTermStructure(TermOf(parsed.term), f.text, filename)
    IN  IF parsed.threw
          THEN [threw |-> FALSE,
                result |-> Invalid(filename,
                  <<Error(filename, "format", Message("Parse error: {arg}"), 0)>>)]
        ELSE IF checked.threw
          THEN [threw |-> TRUE, result |-> Invalid(filename, <<>>)]
        ELSE IF Len(checked.errors) = 0
          THEN [threw |-> FALSE,
                result |->
                  [valid |-> TRUE, file |-> filename, errors |-> <<>>,
                   hasData |-> TRUE,
                   data |-> [title |-> parsed.term.title,
                             abbrev |-> parsed.term.abbrev,
                             tagsCount |-> Len(parsed.term.tags),
                             arabicWordsCount |-> Len(parsed.term.arabicWords)]]]
        ELSE [threw |-> FALSE, result |-> Invalid(filename, checked.errors)]

\* validateFile: [threw, result]; hasData tells whether `data` is present
validateFile(f, filename) ==
  IF ~f.readable
    THEN [threw |-> FALSE,
          result |-> Invalid(filename,
            <<Error(filename, "format", Message("File read error: {arg}"), 0)>>)]
  ELSE
    LET parsed == parseMarkdown(Str(f.text))
        checked == validateTermStructure(TermOf(parsed.term), f.text, filename)
    IN  IF parsed.threw
          THEN [threw |-> FALSE,
                result |-> Invalid(filename,
                  <<Error(filename, "format", Message("Parse error: {arg}"), 0)>>)]
        ELSE IF checked.threw
          THEN [threw |-> FALSE,
                result |-> Invalid(filename,
                  <<Error(filename, "format", Message("File read error: {arg}"), 0)>>)]
        ELSE IF Len(checked.errors) = 0
          THEN [threw |-> FALSE,
                result |->
                  [valid |-> TRUE, file |-> filename, errors |-> <<>>,
                   hasData |-> TRUE,
                   data |-> [title |-> parsed.term.title,
                             abbrev |-> parsed.term.abbrev,
                             tagsCount |-> Len(parsed.term.tags),
                             arabicWordsCount |-> Len(parsed.term.arabicWords)]]]
        ELSE [threw |-> FALSE, result |-> Invalid(filename, checked.errors)]

FileIdle ==
  /\ file = Unreadable
  /\ fresult = Invalid(<<>>, <<>>)
  /\ fpc = "idle"

ValidatorIdle ==
  /\ vterm = NullTerm
  /\ vcontent = <<>>
  /\ verrors = <<>>
  /\ vpc = "idle"

----------------------------------------------------------------------------
(* Strings the inputs are made of *)

tArabic == <<1576, 1575>>                        \* two Arabic letters
tLatin  == <<119>>                               \* "w"
tUser   == <<117>>                               \* "u"
tTitle  == <<84>>                                \* "T"

----------------------------------------------------------------------------
(* String.prototype.localeCompare and Array.prototype.sort *)

\* comparison of two sequences of numbers, element by element: -1, 0 or 1
LexCompare(a, b) ==
  LET m == IF Len(a) < Len(b) THEN Len(a) ELSE Len(b)
      diff == {i \in 1..m : a[i] # b[i]}
  IN  IF diff = {}
        THEN IF Len(a) < Len(b) THEN -1 ELSE IF Len(a) > Len(b) THEN 1 ELSE 0
        ELSE IF a[SetMin(diff)] < b[SetMin(diff)] THEN -1 ELSE 1

\* primary collation weight of a character: spaces and punctuation, then
\* digits, then letters by script, a letter having the weight of its lower
\* case; the "ar" tailoring puts the Arabic script before the Latin one
PrimaryWeight(c, locale) ==
  IF c \in 48..57 THEN 200000 + c
  ELSE IF LowerChar(c) \in 97..122
    THEN 400000 + LowerChar(c)
  ELSE IF IsArabicChar(c)
    THEN (IF locale = "ar" THEN 300000 ELSE 500000) + c
  ELSE IF c < 128 THEN 100000 + c
  ELSE 600000 + c

\* tertiary weight: lower case before upper case
TertiaryWeight(c) == IF c \in 65..90 THEN 1 ELSE 0

\* a.localeCompare(b, locale): the primary weights decide; on a tie the
\* tertiary ones do
localeCompare(a, b, locale) ==
  LET pa == [i \in 1..Len(a) |-> PrimaryWeight(a[i], locale)]
      pb == [i \in 1..Len(b) |-> PrimaryWeight(b[i], locale)]
      ta == [i \in 1..Len(a) |-> TertiaryWeight(a[i])]
      tb == [i \in 1..Len(b) |-> TertiaryWeight(b[i])]
  IN  IF LexCompare(pa, pb) # 0 THEN LexCompare(pa, pb) ELSE LexCompare(ta, tb)

\* the host's default locale, used when localeCompare is given none
sDefaultLocale == "en"

\* Array.prototype.sort with a comparator, a stable sort; cmp[i, j] is what
\* the comparator returns for the elements at i and j
Sort(s, cmp) ==
  LET rank(i) ==
        1 + Cardinality({j \in 1..Len(s) :
                           \/ cmp[j, i] < 0
                           \/ (cmp[j, i] = 0 /\ j < i)})
  IN  [k \in 1..Len(s) |-> s[CHOOSE i \in 1..Len(s) : rank(i) = k]]

----------------------------------------------------------------------------
(* aggregateApprovers *)

Increment_Overwrite(counts, username) ==
  IF \E i \in 1..Len(counts) : counts[i].username = username
    THEN counts
    ELSE Append(counts, [username |-> username, approveCount |-> 1])

\* approverCounts.set(username, (approverCounts.get(username) || 0) + 1) on a
\* Map, which keeps its keys in insertion order
Increment(counts, username) ==
  IF \E i \in 1..Len(counts) : counts[i].username = username
    THEN LET i == CHOOSE i \in 1..Len(counts) : counts[i].username = username
         IN  [counts EXCEPT ![i].approveCount = @ + 1]
    ELSE Append(counts, [username |-> username, approveCount |-> 1])

RECURSIVE CountApprovers(_, _)
CountApprovers(counts, approvedBy) ==
  IF approvedBy = <<>> THEN counts
  ELSE CountApprovers(Increment(counts, Head(approvedBy)), Tail(approvedBy))

RECURSIVE CountWords(_, _)
CountWords(counts, words) ==
  IF words = <<>> THEN counts
  ELSE IF Falsy(Head(words).approvedBy) THEN CountWords(counts, Tail(words))
  ELSE CountWords(CountApprovers(counts, Head(words).approvedBy.v),
                  Tail(words))

RECURSIVE CountTerms(_, _)
CountTerms(counts, ts) ==
  IF ts = <<>> THEN counts
  ELSE IF Falsy(Head(ts).arabicWords) THEN CountTerms(counts, Tail(ts))
  ELSE CountTerms(CountWords(counts, Head(ts).arabicWords.v), Tail(ts))

\* Array.from(approverCounts.entries()).map(...).sort(by username)
SortApprovers(counts) ==
  Sort(counts,
       [i \in 1..Len(counts), j \in 1..Len(counts) |->
          localeCompare(counts[i].username, counts[j].username,
                        sDefaultLocale)])

\* aggregateApprovers(terms)
aggregateApprovers(ts) == SortApprovers(CountTerms(<<>>, ts))

----------------------------------------------------------------------------
(* extractSlug, parseTermFile, generateIndex, readCategoryMeta,
   generateCategoriesIndex *)

sMd == <<46, 109, 100>>                          \* ".md"

\* extractSlug(filename): filename.replace(/\.md$/i, ""), a TypeError for
\* a filename that is not a string
extractSlug(filename) ==
  IF filename.t # "string" THEN [threw |-> TRUE, slug |-> <<>>]
  ELSE IF EndsWith(ToLower(filename.v), sMd)
    THEN [threw |-> FALSE,
          slug |-> SubSeq(filename.v, 1, Len(filename.v) - Len(sMd))]
  ELSE [threw |-> FALSE, slug |-> filename.v]

parseTermFile_NoGate(f) ==
  IF ~f.readable THEN NullTerm
  ELSE LET parsed == parseMarkdown(Str(f.text))
       IN  IF parsed.threw THEN NullTerm ELSE TermOf(parsed.term)

\* parseTermFile(filePath, filename): the Term of the file, null for a file
\* that cannot be read or whose Term fails isValidTerm
parseTermFile(f) ==
  IF ~f.readable THEN NullTerm
  ELSE LET parsed == parseMarkdown(Str(f.text))
       IN  IF parsed.threw THEN NullTerm
           ELSE IF ~isValidTerm(TermOf(parsed.term)) THEN NullTerm
           ELSE TermOf(parsed.term)

\* { slug, title: term.title, ...(term.abbrev && { abbrev: term.abbrev }) };
\* hasAbbrev tells whether the object has the key
TermIndexOf(slug, term) ==
  [slug |-> slug, title |-> term.title.v,
   hasAbbrev |-> term.abbrev # <<>>, abbrev |-> term.abbrev]

\* the entry is passed over by the loop over a directory of term files
NotATermFile(entry) == ~entry.isFile \/ ~EndsWith(entry.name, sMd)

\* the body of generateIndex's loop, for one directory entry
IndexEntry(ts, entry) ==
  IF NotATermFile(entry) THEN ts
  ELSE LET slug == extractSlug(Str(entry.name)).slug
           term == parseTermFile(entry.file)
       IN  IF term.t = "null" THEN ts
           ELSE Append(ts, TermIndexOf(slug, term))

SortTerms_Unsorted(ts) == ts

\* terms.sort((a, b) => a.title.localeCompare(b.title))
SortTerms(ts) ==
  Sort(ts,
       [i \in 1..Len(ts), j \in 1..Len(ts) |->
          localeCompare(ts[i].title, ts[j].title, sDefaultLocale)])

RECURSIVE IndexEntries(_, _)
IndexEntries(ts, entries) ==
  IF entries = <<>> THEN ts
  ELSE IndexEntries(IndexEntry(ts, Head(entries)), Tail(entries))

\* generateIndex(dataDir).terms, entries being what Deno.readDir(dataDir)
\* yields, in the order it yields them
generateIndex(entries) == SortTerms(IndexEntries(<<>>, entries))

\* what readCategoryMeta returns for a missing or unusable meta.json
NullMeta == [t |-> "null", name |-> Undefined, description |-> Undefined]

readCategoryMeta_KeepsDescription(metaFile) ==
  IF ~metaFile.readable \/ ~metaFile.parses THEN NullMeta
  ELSE [t |-> "object", name |-> metaFile.name,
        description |-> IF Falsy(metaFile.description) THEN Undefined
                        ELSE metaFile.description]

\* readCategoryMeta(categoryPath): metaFile is the meta.json of the
\* directory, with the outcome of JSON.parse and the two members read
readCategoryMeta(metaFile) ==
  IF ~metaFile.readable \/ ~metaFile.parses THEN NullMeta
  ELSE IF Falsy(metaFile.name) THEN NullMeta
  ELSE [t |-> "object", name |-> metaFile.name,
        description |-> IF Falsy(metaFile.description) THEN Undefined
                        ELSE metaFile.description]

\* the inner loop of generateCategoriesIndex over the files of one category
RECURSIVE CollectTerms(_, _)
CollectTerms(acc, entries) ==
  IF entries = <<>> THEN acc
  ELSE LET fileEntry == Head(entries)
           term == parseTermFile(fileEntry.file)
       IN  IF NotATermFile(fileEntry) \/ term.t = "null"
             THEN CollectTerms(acc, Tail(entries))
             ELSE CollectTerms(
                    [terms |-> Append(acc.terms, term),
                     termIndex |->
                       Append(acc.termIndex,
                              TermIndexOf(
                                extractSlug(Str(fileEntry.name)).slug, term))],
                    Tail(entries))

CategoryEntry_SharedCounts(cs, entry) ==
  IF ~entry.isDirectory THEN cs
  ELSE LET meta == readCategoryMeta(entry.dir.meta)
           c == CollectTerms([terms |-> <<>>, termIndex |-> <<>>],
                             entry.dir.entries)
       IN  IF Len(c.terms) > 0
             THEN Append(cs,
                    [path |-> entry.name,
                     name |-> IF meta.t = "null" \/ Falsy(meta.name)
                                THEN entry.name ELSE meta.name.v,
                     description |-> IF meta.t = "null" THEN Undefined
                                     ELSE meta.description,
                     termsCount |-> Len(c.terms),
                     approvers |->
                       SortApprovers(
                         CountTerms(IF cs = <<>> THEN <<>>
                                    ELSE cs[Len(cs)].approvers, c.terms)),
                     terms |-> SortTerms(c.termIndex)])
             ELSE cs

CategoryEntry_KeepsEmpty(cs, entry) ==
  IF ~entry.isDirectory THEN cs
  ELSE LET meta == readCategoryMeta(entry.dir.meta)
           c == CollectTerms([terms |-> <<>>, termIndex |-> <<>>],
                             entry.dir.entries)
       IN  Append(cs,
             [path |-> entry.name,
              name |-> IF meta.t = "null" \/ Falsy(meta.name)
                         THEN entry.name ELSE meta.name.v,
              description |-> IF meta.t = "null" THEN Undefined
                              ELSE meta.description,
              termsCount |-> Len(c.terms),
              approvers |-> aggregateApprovers(c.terms),
              terms |-> SortTerms(c.termIndex)])

\* the body of generateCategoriesIndex's outer loop, for one entry whose
\* directory can be listed
CategoryEntry(cs, entry) ==
  IF ~entry.isDirectory THEN cs
  ELSE LET meta == readCategoryMeta(entry.dir.meta)
           c == CollectTerms([terms |-> <<>>, termIndex |-> <<>>],
                             entry.dir.entries)
       IN  IF Len(c.terms) > 0
             THEN Append(cs,
                    [path |-> entry.name,
                     name |-> IF meta.t = "null" \/ Falsy(meta.name)
                                THEN entry.name ELSE meta.name.v,
                     description |-> IF meta.t = "null" THEN Undefined
                                     ELSE meta.description,
                     termsCount |-> Len(c.terms),
                     approvers |-> aggregateApprovers(c.terms),
                     terms |-> SortTerms(c.termIndex)])
             ELSE cs

\* categories.sort((a, b) => a.name.localeCompare(b.name, "ar"))
SortCategories(cs) ==
  Sort(cs,
       [i \in 1..Len(cs), j \in 1..Len(cs) |->
          localeCompare(cs[i].name, cs[j].name, "ar")])

----------------------------------------------------------------------------
(* Positions outside a call *)

CliIdle ==
  /\ args = <<>>
  /\ dataDir = [kind |-> "missing"]
  /\ argi = 0
  /\ paths = <<>>
  /\ pathi = 0
  /\ allResults = <<>>
  /\ exitCode = 0
  /\ cpc = "idle"

FullIdle ==
  /\ mlisting = <<>>
  /\ writes = <<>>
  /\ relisted = <<>>
  /\ mcategories = <<>>
  /\ mpc = "idle"

GateIdle ==
  /\ qterm = [t |-> "undefined"]
  /\ qvalid = FALSE
  /\ qpc = "idle"

AbbrevIdle ==
  /\ gtitle = [t |-> "undefined", v |-> <<>>]
  /\ gabbrev = <<>>
  /\ gpc = "idle"

RerunIdle ==
  /\ firstListing = <<>>
  /\ firstTerms = <<>>
  /\ secondListing = <<>>
  /\ secondTerms = <<>>
  /\ rpc = "idle"

IndexIdle ==
  /\ imode = "none"
  /\ listing = <<>>
  /\ terms = <<>>
  /\ categories = <<>>
  /\ ipc = "idle"

AggIdle ==
  /\ aggTerms = <<>>
  /\ approverCounts = <<>>
  /\ approvers = <<>>
  /\ apc = "idle"

----------------------------------------------------------------------------
(* The stepwise parser: the lines of the document are revealed one by one *)

\* lines a document is made of
LinePool ==
  { <<>>,                                        \* ""
    <<35, 32, 84, 32, 40, 65, 41>>,              \* "# T (A)"
    <<35, 32, 111, 102, 32, 66>>,                \* "# of B"
    <<35, 32, 84>>,                              \* "# T"
    <<35, 32, 40, 65, 41>>,                      \* "# (A)"
    <<35, 32, 97, 13, 98>>,                      \* "# a\rb"
    sDescription, sTags, sArabicWords, sApprovedBy,
    <<35, 35, 32, 1576, 1575>>,                  \* "## <ba><alef>"
    <<45, 32, 117>>,                             \* "- u"
    <<116>> }                                    \* "t"

\* typeof of the values parseMarkdown may be called with
ContentTypes == {"string", "undefined", "object", "number"}

ParserIdle ==
  /\ content = [t |-> "undefined"]
  /\ pc = "idle"
  /\ n = 0
  /\ line = <<>>
  /\ result = EmptyResult
  /\ currentSection = "None"
  /\ currentArabicWord = 0
  /\ titleFound = FALSE
  /\ h1Seen = FALSE
  /\ h1Matched = FALSE

ParseInit ==
  /\ ValidatorIdle /\ FileIdle /\ AggIdle /\ IndexIdle /\ RerunIdle /\ AbbrevIdle
  /\ GateIdle
  /\ FullIdle
  /\ CliIdle
  /\ content \in {[t |-> ty] : ty \in ContentTypes}
  /\ pc = "start"
  /\ n = 0
  /\ line = <<>>
  /\ result = EmptyResult
  /\ currentSection = "None"
  /\ currentArabicWord = 0
  /\ titleFound = FALSE
  /\ h1Seen = FALSE
  /\ h1Matched = FALSE

\* the typeof check and the initialisation of the locals
Enter ==
  /\ pc = "start"
  /\ pc' = IF content.t # "string" THEN "thrown" ELSE "loop"
  /\ UNCHANGED <<content, n, line, result, currentSection,
                 currentArabicWord, titleFound, h1Seen, h1Matched>>

\* one iteration of the for loop
NextLine ==
  /\ pc = "loop"
  /\ n < MaxLines
  /\ \E l \in LinePool :
       LET p == ProcessLine([result |-> result,
                             currentSection |-> currentSection,
                             currentArabicWord |-> currentArabicWord,
                             titleFound |-> titleFound,
                             threw |-> FALSE], l)
       IN  /\ line' = l
           /\ n' = n + 1
           /\ result' = p.result
           /\ currentSection' = p.currentSection
           /\ currentArabicWord' = p.currentArabicWord
           /\ titleFound' = p.titleFound
           /\ pc' = IF p.threw THEN "thrown" ELSE "loop"
           /\ h1Seen' = (h1Seen \/ IsH1(Trim(l)))
           /\ h1Matched' =
                (h1Matched \/ (IsH1(Trim(l)) /\ TitleMatch(Trim(l)).ok))
  /\ UNCHANGED content

\* the post-pass and the return
Return ==
  /\ pc = "loop"
  /\ n >= 1
  /\ result' = PostPass(result)
  /\ pc' = "done"
  /\ UNCHANGED <<content, n, line, currentSection, currentArabicWord,
                 titleFound, h1Seen, h1Matched>>

ParseNext ==
  \/ Enter /\ UNCHANGED <<validatorVars, fileVars, aggVars, indexVars, rerunVars, abbrevVars,
                      gateVars,
                      fullVars,
                      cliVars>>
  \/ NextLine /\ UNCHANGED <<validatorVars, fileVars, aggVars, indexVars, rerunVars, abbrevVars,
                      gateVars,
                      fullVars,
                      cliVars>>
  \/ Return /\ UNCHANGED <<validatorVars, fileVars, aggVars, indexVars, rerunVars, abbrevVars,
                      gateVars,
                      fullVars,
                      cliVars>>

SpecParse == ParseInit /\ [][ParseNext]_vars

----------------------------------------------------------------------------
(* Inputs of the validator *)

BoundedSeq(S, k) == UNION {[1..m -> S] : m \in 0..k}

\* "# T\n## Description\n<ar>\n## Tags\n- <ar>\n# Arabic Words\n## <ar>\n
\*  ### Approved By\n- u\n"
FullDocument ==
  <<35, 32, 84, 10>> \o sDescription \o <<10>> \o tArabic \o <<10>>
    \o sTags \o <<10, 45, 32>> \o tArabic \o <<10>>
    \o sArabicWords \o <<10>> \o sH2 \o tArabic \o <<10>>
    \o sApprovedBy \o <<10, 45, 32>> \o tUser \o <<10>>

WordPool ==
  [word : {<<>>, tLatin, tArabic},
   approvedBy : {Undefined, Arr(<<>>), Arr(<<tUser>>)}]

TagLists ==
  {<<>>, <<tArabic>>, <<tLatin>>, <<tArabic, tLatin>>, <<tLatin, tUser>>}

\* terms of the right shape, whose content the second tier checks
WellFormedTerms ==
  [t : {"object"},
   title : {Str(tTitle)},
   abbrev : {<<>>},
   description : {<<>>, <<32>>, tLatin, tLatin \o <<32>> \o tArabic},
   tags : {Arr(x) : x \in TagLists},
   arabicWords : {Arr(x) : x \in BoundedSeq(WordPool, MaxWords)}]

\* terms with a missing or ill-typed top-level field (and some without)
IllFormedTerms ==
  [t : {"object"},
   title : {Undefined, Str(<<>>), Str(tTitle), Number},
   abbrev : {<<>>},
   description : {<<>>, tLatin \o <<32>> \o tArabic},
   tags : {Undefined, Arr(<<>>), Arr(<<tArabic>>)},
   arabicWords :
     {Undefined, Arr(<<>>),
      Arr(<<[word |-> tArabic, approvedBy |-> Arr(<<tUser>>)]>>)}]

TermPool == {NullTerm} \cup IllFormedTerms \cup WellFormedTerms

sTestMd == <<116, 46, 109, 100>>                 \* "t.md"

ValidateInit ==
  /\ ParserIdle /\ FileIdle /\ AggIdle /\ IndexIdle /\ RerunIdle /\ AbbrevIdle
  /\ GateIdle
  /\ FullIdle
  /\ CliIdle
  /\ vterm \in TermPool
  /\ vcontent \in {<<>>, FullDocument}
  /\ verrors = <<>>
  /\ vpc = "called"

\* validateTermStructure(term, content, filename) runs to its return or throw
Validate ==
  /\ vpc = "called"
  /\ LET r == validateTermStructure(vterm, vcontent, sTestMd)
     IN  /\ verrors' = r.errors
         /\ vpc' = IF r.threw THEN "thrown" ELSE "returned"
  /\ UNCHANGED <<vterm, vcontent, parserVars, fileVars, aggVars, indexVars, rerunVars, abbrevVars,
                      gateVars,
                      fullVars,
                      cliVars>>

SpecValidate == ValidateInit /\ [][Validate]_vars

----------------------------------------------------------------------------
(* Inputs of validateFile: documents put together from section blocks *)

nl == <<10>>

TitleBlocks ==
  { <<>>,
    <<35, 32, 84, 32, 40, 65, 41>> \o nl,        \* "# T (A)"
    <<35, 32, 111, 102, 32, 66>> \o nl,         \* "# of B"
    sH1 \o <<32>> \o nl }                       \* "# " and a space

DescriptionBlocks ==
  { <<>>,
    sDescription \o nl,
    sDescription \o nl \o tLatin \o nl,
    sDescription \o nl \o tArabic \o nl }

\* a heading and a list item with nothing but white space after the
\* marker, and ones whose text is padded with spaces, no-break spaces and tabs
sBareHeading == sH2 \o <<32, 160>>
sBareItem    == sDash \o <<9, 32>>
sPadding     == <<32, 160, 9>>

TagsBlocks ==
  { <<>>,
    sTags \o nl,
    sTags \o nl \o sDash \o tLatin \o nl,
    sTags \o nl \o sDash \o tArabic \o nl,
    sTags \o nl \o sBareItem \o nl,
    sTags \o nl \o <<32>> \o sDash \o sPadding \o tArabic \o sPadding \o nl }

ArabicWordsBlocks ==
  { <<>>,
    sArabicWords \o nl,
    sArabicWords \o nl \o sH2 \o tArabic \o nl,
    sArabicWords \o nl \o sH2 \o tLatin \o nl
      \o sApprovedBy \o nl \o sDash \o tUser \o nl,
    sArabicWords \o nl \o sH2 \o tArabic \o nl
      \o sApprovedBy \o nl \o sDash \o tUser \o nl,
    sArabicWords \o nl \o sH2 \o tArabic \o nl
      \o sApprovedBy \o nl \o sDash \o tUser \o nl
      \o sH2 \o tLatin \o nl,
    sArabicWords \o nl \o sBareHeading \o nl \o sBareItem \o nl,
    sArabicWords \o nl \o sH2 \o sPadding \o tArabic \o sPadding \o nl
      \o sApprovedBy \o nl \o sBareItem \o nl
      \o sDash \o sPadding \o tUser \o sPadding \o nl }

Documents ==
  {a \o b \o c \o d : a \in TitleBlocks, b \in DescriptionBlocks,
                      c \in TagsBlocks, d \in ArabicWordsBlocks}

FileInit ==
  /\ ParserIdle /\ ValidatorIdle /\ AggIdle /\ IndexIdle /\ RerunIdle /\ AbbrevIdle
  /\ GateIdle
  /\ FullIdle
  /\ CliIdle
  /\ file \in {Unreadable} \cup {FileWith(d) : d \in Documents}
  /\ fresult = Invalid(<<>>, <<>>)
  /\ fpc = "called"

\* validateFile(filePath, filename) runs to its return (or rejection)
ValidateFile ==
  /\ fpc = "called"
  /\ LET r == validateFile(file, sTestMd)
     IN  /\ fresult' = r.result
         /\ fpc' = IF r.threw THEN "thrown" ELSE "returned"
  /\ UNCHANGED <<file, parserVars, validatorVars, aggVars, indexVars, rerunVars, abbrevVars,
                      gateVars,
                      fullVars,
                      cliVars>>

SpecFile == FileInit /\ [][ValidateFile]_vars

----------------------------------------------------------------------------
(* One call of aggregateApprovers, its argument read item by item *)

Usernames ==
  { <<97, 109, 121>>,                            \* "amy"
    <<98, 111, 98>>,                             \* "bob"
    <<90, 101, 100>> }                           \* "Zed"

AggInit ==
  /\ ParserIdle /\ ValidatorIdle /\ FileIdle /\ IndexIdle /\ RerunIdle /\ AbbrevIdle
  /\ GateIdle
  /\ FullIdle
  /\ CliIdle
  /\ aggTerms = <<>>
  /\ approverCounts = <<>>
  /\ approvers = <<>>
  /\ apc = "loop"

\* terms, words and approver entries read so far
Items(ts) ==
  Len(ts) + Cardinality({<<i, j>> \in (1..Len(ts)) \X (1..MaxItems) :
                            /\ ~Falsy(ts[i].arabicWords)
                            /\ j <= Len(ts[i].arabicWords.v)})
          + Cardinality({<<i, j, k>> \in
                            (1..Len(ts)) \X (1..MaxItems) \X (1..MaxItems) :
                            /\ ~Falsy(ts[i].arabicWords)
                            /\ j <= Len(ts[i].arabicWords.v)
                            /\ ~Falsy(ts[i].arabicWords.v[j].approvedBy)
                            /\ k <= Len(ts[i].arabicWords.v[j].approvedBy.v)})

\* `for (const term of terms)`: the next term, with or without arabicWords
NextTerm ==
  /\ apc = "loop"
  /\ Items(aggTerms) < MaxItems
  /\ \E aw \in {Undefined, Arr(<<>>)} :
       aggTerms' = Append(aggTerms,
                          [title |-> tTitle, arabicWords |-> aw])
  /\ UNCHANGED <<approverCounts, approvers, apc>>

\* `for (const arabicWord of term.arabicWords)`: the next word of the term
\* being read, with or without approvedBy
NextWord ==
  /\ apc = "loop"
  /\ Items(aggTerms) < MaxItems
  /\ aggTerms # <<>>
  /\ ~Falsy(aggTerms[Len(aggTerms)].arabicWords)
  /\ \E ab \in {Undefined, Arr(<<>>)} :
       aggTerms' =
         [aggTerms EXCEPT ![Len(aggTerms)].arabicWords.v =
            Append(@, [word |-> tArabic, approvedBy |-> ab])]
  /\ UNCHANGED <<approverCounts, approvers, apc>>

\* `for (const username of arabicWord.approvedBy)`: the next approver of the
\* word being read
NextApprover ==
  /\ apc = "loop"
  /\ Items(aggTerms) < MaxItems
  /\ aggTerms # <<>>
  /\ ~Falsy(aggTerms[Len(aggTerms)].arabicWords)
  /\ LET ws == aggTerms[Len(aggTerms)].arabicWords.v
     IN  /\ ws # <<>>
         /\ ~Falsy(ws[Len(ws)].approvedBy)
         /\ \E username \in Usernames :
              /\ aggTerms' =
                   [aggTerms EXCEPT
                      ![Len(aggTerms)].arabicWords.v[Len(ws)].approvedBy.v =
                         Append(@, username)]
              /\ approverCounts' = Increment(approverCounts, username)
  /\ UNCHANGED <<approvers, apc>>

\* the loops end: the Map becomes the sorted array that is returned
ReturnApprovers ==
  /\ apc = "loop"
  /\ approvers' = SortApprovers(approverCounts)
  /\ apc' = "done"
  /\ UNCHANGED <<aggTerms, approverCounts>>

AggNext ==
  \/ NextTerm /\ UNCHANGED <<parserVars, validatorVars, fileVars, indexVars, rerunVars, abbrevVars,
                      gateVars,
                      fullVars,
                      cliVars>>
  \/ NextWord /\ UNCHANGED <<parserVars, validatorVars, fileVars, indexVars, rerunVars, abbrevVars,
                      gateVars,
                      fullVars,
                      cliVars>>
  \/ NextApprover /\ UNCHANGED <<parserVars, validatorVars, fileVars, indexVars, rerunVars, abbrevVars,
                      gateVars,
                      fullVars,
                      cliVars>>
  \/ ReturnApprovers /\ UNCHANGED <<parserVars, validatorVars, fileVars, indexVars, rerunVars, abbrevVars,
                      gateVars,
                      fullVars,
                      cliVars>>

SpecAggregate == AggInit /\ [][AggNext]_vars

----------------------------------------------------------------------------
(* One call of generateIndex or generateCategoriesIndex, the directory
   listing yielded entry by entry *)

sZed == <<90, 101, 100>>                         \* "Zed"
sApplePie == <<97, 112, 112, 108, 101, 32, 112, 105, 101>>  \* "apple pie"
sTA == <<84, 32, 40, 65, 41>>                    \* "T (A)"
sTB == <<84, 32, 40, 66, 41>>                    \* "T (B)"
sAmy == <<97, 109, 121>>                         \* "amy"
sBob == <<98, 111, 98>>                          \* "bob"

RECURSIVE ApproverLines(_)
ApproverLines(us) ==
  IF us = <<>> THEN <<>>
  ELSE sDash \o Head(us) \o <<10>> \o ApproverLines(Tail(us))

\* "# <title>\n# Arabic Words\n## <ar>\n### Approved By\n- <u>\n..."
TermDocument(titleText, us) ==
  sH1 \o titleText \o <<10>> \o sArabicWords \o <<10>>
    \o sH2 \o tArabic \o <<10>> \o sApprovedBy \o <<10>> \o ApproverLines(us)

NoMeta == [readable |-> FALSE, parses |-> FALSE,
           name |-> Undefined, description |-> Undefined]
MetaWith(name, description) ==
  [readable |-> TRUE, parses |-> TRUE,
   name |-> name, description |-> description]
MalformedMeta == [readable |-> TRUE, parses |-> FALSE,
                  name |-> Undefined, description |-> Undefined]

NoDir == [readable |-> FALSE, meta |-> NoMeta, entries |-> <<>>]

\* Deno.DirEntry values, with what lies behind the name
FileEntry(name, f) ==
  [name |-> name, isFile |-> TRUE, isDirectory |-> FALSE,
   file |-> f, dir |-> NoDir]
DirEntry(name, d) ==
  [name |-> name, isFile |-> FALSE, isDirectory |-> TRUE,
   file |-> Unreadable, dir |-> d]
SymlinkEntry(name) ==
  [name |-> name, isFile |-> FALSE, isDirectory |-> FALSE,
   file |-> Unreadable, dir |-> NoDir]

eZed == FileEntry(<<97>> \o sMd, FileWith(TermDocument(sZed, <<sBob, sAmy>>)))
eApplePie == FileEntry(<<98>> \o sMd, FileWith(TermDocument(sApplePie, <<sAmy>>)))
eTA == FileEntry(<<99>> \o sMd, FileWith(TermDocument(sTA, <<sBob, sBob>>)))
eTB == FileEntry(<<100>> \o sMd, FileWith(sH1 \o sTB))
eEmpty == FileEntry(<<101>> \o sMd, FileWith(<<>>))
eUnreadable == FileEntry(<<102>> \o sMd, Unreadable)
eSubdirectory == DirEntry(<<103>> \o sMd, NoDir)
eText == FileEntry(<<104, 46, 116, 120, 116>>, FileWith(sH1 \o sTA))
eUpperCase == FileEntry(<<105, 46, 77, 68>>, FileWith(sH1 \o sTA))
eSymlink == SymlinkEntry(<<106>> \o sMd)

\* what a directory of term files can hold
EntryPool ==
  { eZed, eApplePie, eTA, eTB, eEmpty, eUnreadable, eSubdirectory, eText,
    eUpperCase, eSymlink }

\* what the data directory of categories can hold
RootPool ==
  { DirEntry(<<116>>,
      [readable |-> TRUE, meta |-> MetaWith(Str(tArabic), Str(<<100>>)),
       entries |-> <<eZed, eApplePie>>]),
    DirEntry(<<109>>,
      [readable |-> TRUE, meta |-> NoMeta,
       entries |-> <<eTA, eEmpty, eText>>]),
    DirEntry(<<122>>,
      [readable |-> TRUE, meta |-> MetaWith(Undefined, Str(<<100>>)),
       entries |-> <<eApplePie, eZed, eTB>>]),
    DirEntry(<<101>>,
      [readable |-> TRUE, meta |-> MetaWith(Str(<<1578>>), Undefined),
       entries |-> <<eEmpty, eUnreadable, eSubdirectory>>]),
    DirEntry(<<108>>, NoDir),
    DirEntry(<<98>>,
      [readable |-> TRUE, meta |-> MalformedMeta, entries |-> <<eTB>>]),
    DirEntry(<<110>>,
      [readable |-> TRUE, meta |-> MetaWith(Str(<<>>), Str(<<100>>)),
       entries |-> <<eTB>>]),
    DirEntry(<<100>>,
      [readable |-> TRUE, meta |-> MetaWith(Str(<<1579>>), Str(<<>>)),
       entries |-> <<eZed>>]),
    eTB }

Listed(name) == \E i \in 1..Len(listing) : listing[i].name = name

IndexInit ==
  /\ ParserIdle /\ ValidatorIdle /\ FileIdle /\ AggIdle /\ RerunIdle /\ AbbrevIdle
  /\ GateIdle
  /\ FullIdle
  /\ CliIdle
  /\ imode \in {"index", "categories"}
  /\ listing = <<>>
  /\ terms = <<>>
  /\ categories = <<>>
  /\ ipc = "loop"

\* Deno.readDir(dataDir) fails: the exception leaves the function
ReadDirThrows ==
  /\ ipc = "loop"
  /\ listing = <<>>
  /\ ipc' = "thrown"
  /\ UNCHANGED <<imode, listing, terms, categories>>

\* generateIndex: the listing yields one more entry
NextEntry ==
  /\ ipc = "loop"
  /\ imode = "index"
  /\ Len(listing) < MaxEntries
  /\ \E entry \in EntryPool :
       /\ ~Listed(entry.name)
       /\ listing' = Append(listing, entry)
       /\ terms' = IndexEntry(terms, entry)
  /\ UNCHANGED <<imode, categories, ipc>>

\* generateIndex: the listing ends, the terms are sorted and returned
ReturnIndex ==
  /\ ipc = "loop"
  /\ imode = "index"
  /\ terms' = SortTerms(terms)
  /\ ipc' = "done"
  /\ UNCHANGED <<imode, listing, categories>>

\* generateCategoriesIndex: the listing yields one more entry; listing a
\* subdirectory that cannot be read throws out of the function
NextCategory ==
  /\ ipc = "loop"
  /\ imode = "categories"
  /\ Len(listing) < MaxEntries
  /\ \E entry \in RootPool :
       /\ ~Listed(entry.name)
       /\ listing' = Append(listing, entry)
       /\ IF entry.isDirectory /\ ~entry.dir.readable
            THEN ipc' = "thrown" /\ UNCHANGED categories
            ELSE /\ categories' = CategoryEntry(categories, entry)
                 /\ UNCHANGED ipc
  /\ UNCHANGED <<imode, terms>>

\* generateCategoriesIndex: the listing ends, the categories are sorted and
\* returned
ReturnCategories ==
  /\ ipc = "loop"
  /\ imode = "categories"
  /\ categories' = SortCategories(categories)
  /\ ipc' = "done"
  /\ UNCHANGED <<imode, listing, terms>>

IndexNext ==
  \/ ReadDirThrows /\ UNCHANGED <<parserVars, validatorVars, fileVars, aggVars, rerunVars, abbrevVars,
                      gateVars,
                      fullVars,
                      cliVars>>
  \/ NextEntry /\ UNCHANGED <<parserVars, validatorVars, fileVars, aggVars, rerunVars, abbrevVars,
                      gateVars,
                      fullVars,
                      cliVars>>
  \/ ReturnIndex /\ UNCHANGED <<parserVars, validatorVars, fileVars, aggVars, rerunVars, abbrevVars,
                      gateVars,
                      fullVars,
                      cliVars>>
  \/ NextCategory /\ UNCHANGED <<parserVars, validatorVars, fileVars, aggVars, rerunVars, abbrevVars,
                      gateVars,
                      fullVars,
                      cliVars>>
  \/ ReturnCategories
       /\ UNCHANGED <<parserVars, validatorVars, fileVars, aggVars, rerunVars, abbrevVars,
                      gateVars,
                      fullVars,
                      cliVars>>

SpecIndex == IndexInit /\ [][IndexNext]_vars

----------------------------------------------------------------------------
(* Two calls of generateIndex on an unchanged directory *)

\* the orders in which Deno.readDir can yield the entries of a directory of
\* at most MaxEntries entries: no name twice
Listings ==
  {l \in BoundedSeq(EntryPool, MaxEntries) :
     \A i, j \in 1..Len(l) : i # j => l[i].name # l[j].name}

Range(l) == {l[i] : i \in 1..Len(l)}

RerunInit ==
  /\ ParserIdle /\ ValidatorIdle /\ FileIdle /\ AggIdle /\ IndexIdle
  /\ AbbrevIdle
  /\ GateIdle
  /\ FullIdle
  /\ CliIdle
  /\ firstListing = <<>>
  /\ firstTerms = <<>>
  /\ secondListing = <<>>
  /\ secondTerms = <<>>
  /\ rpc = "first"

\* the first call: the directory is listed in some order
FirstRun ==
  /\ rpc = "first"
  /\ \E l \in Listings :
       /\ firstListing' = l
       /\ firstTerms' = generateIndex(l)
  /\ rpc' = "second"
  /\ UNCHANGED <<secondListing, secondTerms>>

\* the second call: the same entries, listed in some order
SecondRun ==
  /\ rpc = "second"
  /\ \E l \in Listings :
       /\ Range(l) = Range(firstListing)
       /\ secondListing' = l
       /\ secondTerms' = generateIndex(l)
  /\ rpc' = "done"
  /\ UNCHANGED <<firstListing, firstTerms>>

RerunNext ==
  \/ FirstRun
       /\ UNCHANGED <<parserVars, validatorVars, fileVars, aggVars,
                      indexVars, abbrevVars,
                      gateVars,
                      fullVars,
                      cliVars>>
  \/ SecondRun
       /\ UNCHANGED <<parserVars, validatorVars, fileVars, aggVars,
                      indexVars, abbrevVars,
                      gateVars,
                      fullVars,
                      cliVars>>

SpecRerun == RerunInit /\ [][RerunNext]_vars

----------------------------------------------------------------------------
(* main --full: an index.json per category, then categories.json *)

\* the data directory holds a file, categories of RootPool (one of two
\* terms, one without terms, one that cannot be listed, one with an
\* unusable meta.json), and a category whose two term files have the same
\* title
FullPool ==
  {entry \in RootPool :
     ~entry.isDirectory \/ entry.name \in {<<116>>, <<101>>, <<108>>, <<98>>}}
    \cup
    {DirEntry(<<107>>,
       [readable |-> TRUE, meta |-> NoMeta, entries |-> <<eTA, eTB>>])}

\* the orders in which Deno.readDir can yield the entries of a list
Orders(entries) ==
  {l \in [1..Len(entries) -> Range(entries)] :
     \A i, j \in 1..Len(l) : i # j => l[i] # l[j]}

\* a directory entry whose directory is listed in the given order
ListedAs(entry, order) == [entry EXCEPT !.dir.entries = order]

\* await writeIndex(indexData, `${categoryFullPath}/index.json`)
IndexWrite(category, ts) ==
  [file |-> "index.json", category |-> category, terms |-> ts,
   categories |-> <<>>]

\* await writeIndex(categoriesData, `${dataDir}/categories.json`)
CategoriesWrite(cs) ==
  [file |-> "categories.json", category |-> <<>>, terms |-> <<>>,
   categories |-> cs]

\* the index.json the first loop leaves in a category it wrote one for
sIndexJson == <<105, 110, 100, 101, 120, 46, 106, 115, 111, 110>>
eIndexJson == FileEntry(sIndexJson, FileWith(<<>>))

WritesIndex_Always(indexData) == TRUE

\* if (indexData.terms.length > 0)
WritesIndex(indexData) == Len(indexData) > 0

IndexWritten(category) ==
  \E i \in 1..Len(writes) :
    writes[i].file = "index.json" /\ writes[i].category = category

FullInit ==
  /\ ParserIdle /\ ValidatorIdle /\ FileIdle /\ AggIdle /\ IndexIdle
  /\ RerunIdle /\ AbbrevIdle /\ GateIdle
  /\ CliIdle
  /\ mlisting = <<>>
  /\ writes = <<>>
  /\ relisted = <<>>
  /\ mcategories = <<>>
  /\ mpc = "first"

\* the first loop reads one more entry of the data directory: for a
\* directory, generateIndex lists it (and throws when it cannot) and its
\* index.json is written when it has terms
FirstLoopEntry ==
  /\ mpc = "first"
  /\ Len(mlisting) < MaxCategories
  /\ \E entry \in FullPool :
       /\ \A i \in 1..Len(mlisting) : mlisting[i].name # entry.name
       /\ \E order \in Orders(entry.dir.entries) :
            /\ mlisting' = Append(mlisting, ListedAs(entry, order))
            /\ IF ~entry.isDirectory THEN UNCHANGED <<writes, mpc>>
               ELSE IF ~entry.dir.readable
                 THEN mpc' = "thrown" /\ UNCHANGED writes
               ELSE LET indexData == generateIndex(order)
                    IN  /\ writes' = IF WritesIndex(indexData)
                                       THEN Append(writes,
                                              IndexWrite(entry.name, indexData))
                                       ELSE writes
                        /\ UNCHANGED mpc
  /\ UNCHANGED <<relisted, mcategories>>

\* the first loop ends: generateCategoriesIndex(dataDir) is called
FirstLoopEnds ==
  /\ mpc = "first"
  /\ mpc' = "second"
  /\ UNCHANGED <<mlisting, writes, relisted, mcategories>>

\* generateCategoriesIndex reads one more entry of the data directory, in
\* an order of its own; a directory is listed again, in some order, and
\* now holds the index.json written for it
SecondLoopEntry ==
  /\ mpc = "second"
  /\ \E i \in 1..Len(mlisting) :
       /\ \A j \in 1..Len(relisted) : relisted[j].name # mlisting[i].name
       /\ \E order \in Orders(mlisting[i].dir.entries) :
            LET again ==
                  IF IndexWritten(mlisting[i].name)
                    THEN Append(order, eIndexJson) ELSE order
                entry == ListedAs(mlisting[i], again)
            IN  /\ relisted' = Append(relisted, entry)
                /\ mcategories' = CategoryEntry(mcategories, entry)
  /\ UNCHANGED <<mlisting, writes, mpc>>

\* the listing ends: the categories are sorted and returned, and
\* categories.json is written
SecondLoopEnds ==
  /\ mpc = "second"
  /\ Len(relisted) = Len(mlisting)
  /\ mcategories' = SortCategories(mcategories)
  /\ writes' = Append(writes, CategoriesWrite(SortCategories(mcategories)))
  /\ mpc' = "done"
  /\ UNCHANGED <<mlisting, relisted>>

FullNext ==
  \/ FirstLoopEntry
       /\ UNCHANGED <<parserVars, validatorVars, fileVars, aggVars,
                      indexVars, rerunVars, abbrevVars, gateVars,
                      cliVars>>
  \/ FirstLoopEnds
       /\ UNCHANGED <<parserVars, validatorVars, fileVars, aggVars,
                      indexVars, rerunVars, abbrevVars, gateVars,
                      cliVars>>
  \/ SecondLoopEntry
       /\ UNCHANGED <<parserVars, validatorVars, fileVars, aggVars,
                      indexVars, rerunVars, abbrevVars, gateVars,
                      cliVars>>
  \/ SecondLoopEnds
       /\ UNCHANGED <<parserVars, validatorVars, fileVars, aggVars,
                      indexVars, rerunVars, abbrevVars, gateVars,
                      cliVars>>

SpecFull == FullInit /\ [][FullNext]_vars

----------------------------------------------------------------------------
(* The validation CLI: findMarkdownFiles and main of validate-terms.ts *)

sVerbose     == <<45, 45, 118, 101, 114, 98, 111, 115, 101>>  \* "--verbose"
sV           == <<45, 118>>  \* "-v"
sHelp        == <<45, 45, 104, 101, 108, 112>>  \* "--help"
sH           == <<45, 104>>  \* "-h"
sQuiet       == <<45, 113>>  \* "-q"
sNodeModules == <<110, 111, 100, 101, 95, 109, 111, 100, 117, 108, 101, 115>>
                                                 \* "node_modules"

\* the directory is passed over by findMarkdownFiles
SkippedDirectory(name) == StartsWith(name, <<46>>) \/ name = sNodeModules

ScanThrows_Shallow(d) == ~d.readable

\* findMarkdownFiles(dirPath) throws: the directory, or one it descends
\* into, cannot be listed
RECURSIVE ScanThrows(_)
ScanThrows(d) ==
  \/ ~d.readable
  \/ \E i \in 1..Len(d.entries) :
       LET entry == d.entries[i]
       IN  /\ entry.isDirectory
           /\ ~SkippedDirectory(entry.name)
           /\ ScanThrows(entry.dir)

\* findMarkdownFiles(dirPath) when it does not throw: the .md files of the
\* directory and of the directories it descends into, in listing order
RECURSIVE MarkdownFilesFrom(_, _)
MarkdownFilesFrom(entries, i) ==
  IF i > Len(entries) THEN <<>>
  ELSE LET entry == entries[i]
           found ==
             IF entry.isDirectory /\ ~SkippedDirectory(entry.name)
               THEN MarkdownFilesFrom(entry.dir.entries, 1)
             ELSE IF entry.isFile /\ EndsWith(entry.name, sMd)
               THEN <<[name |-> entry.name, file |-> entry.file]>>
             ELSE <<>>
       IN  found \o MarkdownFilesFrom(entries, i + 1)

findMarkdownFiles(d) ==
  IF ScanThrows(d) THEN [threw |-> TRUE, files |-> <<>>]
  ELSE [threw |-> FALSE, files |-> MarkdownFilesFrom(d.entries, 1)]

\* what Deno.stat finds behind a path
Missing == [kind |-> "missing", file |-> Unreadable, dir |-> NoDir]
Other == [kind |-> "other", file |-> Unreadable, dir |-> NoDir]
AFile(f) == [kind |-> "file", file |-> f, dir |-> NoDir]
ADirectory(entries) ==
  [kind |-> "directory", file |-> Unreadable,
   dir |-> [readable |-> TRUE, meta |-> NoMeta, entries |-> entries]]

eValid == FileEntry(<<97>> \o sMd, FileWith(FullDocument))

\* the paths of the model and what lies behind them
PathNames ==
  {<<97, 46, 109, 100>>, <<101, 46, 109, 100>>, <<102, 46, 109, 100>>, <<110, 46, 109, 100>>, <<114, 46, 116, 120, 116>>,
   <<103>>, <<107>>, <<98>>, <<120>>, <<111>>}

Stat(path) ==
  CASE path = <<97, 46, 109, 100>> -> AFile(FileWith(FullDocument))    \* "a.md", valid
    [] path = <<101, 46, 109, 100>> -> AFile(FileWith(<<>>))            \* "e.md", no title
    [] path = <<102, 46, 109, 100>> -> AFile(Unreadable)                \* "f.md", unreadable
    [] path = <<110, 46, 109, 100>> -> Missing                          \* "n.md"
    [] path = <<114, 46, 116, 120, 116>> -> AFile(FileWith(FullDocument))
                                                 \* "r.txt"
    [] path = <<103>> -> ADirectory(<<eValid, eText>>)                \* "g"
    [] path = <<107>> ->                                             \* "k"
         ADirectory(<<DirEntry(<<115>>, ADirectory(<<eValid>>).dir),
                      DirEntry(<<46, 104>>, NoDir),
                      DirEntry(sNodeModules, NoDir)>>)
    [] path = <<98>> ->                                              \* "b"
         ADirectory(<<eValid,
                      DirEntry(<<115>>,
                        ADirectory(<<DirEntry(<<116>>, NoDir)>>).dir)>>)
    [] path = <<120>> -> ADirectory(<<eText, eUpperCase>>)            \* "x"
    [] path = <<111>> -> Other                                       \* "o"
    [] OTHER -> Missing

\* the command lines of the model
ArgPool == {sVerbose, sV, sHelp, sH, sQuiet} \cup PathNames

CliInit ==
  /\ ParserIdle /\ ValidatorIdle /\ FileIdle /\ AggIdle /\ IndexIdle
  /\ RerunIdle /\ AbbrevIdle /\ GateIdle /\ FullIdle
  /\ args \in BoundedSeq(ArgPool, MaxArgs)
  /\ dataDir \in {Missing, ADirectory(<<eValid>>), ADirectory(<<eEmpty>>)}
  /\ argi = 1
  /\ paths = <<>>
  /\ pathi = 1
  /\ allResults = <<>>
  /\ exitCode = 0
  /\ cpc = "args"

\* Deno.stat(path): "./data" is the default path
sDotData == <<46, 47, 100, 97, 116, 97>>             \* "./data"
StatOf(path) == IF path = sDotData THEN dataDir ELSE Stat(path)

\* the loop over the arguments, one argument
NextArg ==
  /\ cpc = "args"
  /\ argi <= Len(args)
  /\ LET arg == args[argi]
     IN  IF arg \in {sVerbose, sV}
           THEN UNCHANGED <<paths, exitCode, cpc>>
         ELSE IF arg \in {sHelp, sH}
           THEN exitCode' = 0 /\ cpc' = "exited" /\ UNCHANGED paths
         ELSE IF ~StartsWith(arg, <<45>>)
           THEN paths' = Append(paths, arg) /\ UNCHANGED <<exitCode, cpc>>
         ELSE UNCHANGED <<paths, exitCode, cpc>>
  /\ argi' = argi + 1
  /\ UNCHANGED <<args, dataDir, pathi, allResults>>

\* the arguments are read: without a path, ./data is validated
ArgsRead ==
  /\ cpc = "args"
  /\ argi > Len(args)
  /\ paths' = IF paths = <<>> THEN <<sDotData>> ELSE paths
  /\ cpc' = "paths"
  /\ UNCHANGED <<args, dataDir, argi, pathi, allResults, exitCode>>

\* the validateFile results of a list of files
ResultsOf(files) ==
  [i \in 1..Len(files) |-> validateFile(files[i].file, files[i].name).result]

\* the loop over the paths, one path
NextPath ==
  /\ cpc = "paths"
  /\ pathi <= Len(paths)
  /\ LET path == paths[pathi]
         stat == StatOf(path)
     IN  IF stat.kind = "missing"
           THEN exitCode' = 1 /\ cpc' = "exited" /\ UNCHANGED allResults
         ELSE IF stat.kind = "file"
           THEN /\ allResults' =
                     IF EndsWith(path, sMd)
                       THEN Append(allResults,
                                   validateFile(stat.file, path).result)
                       ELSE allResults
                /\ UNCHANGED <<exitCode, cpc>>
         ELSE IF stat.kind = "directory"
           THEN LET found == findMarkdownFiles(stat.dir)
                IN  IF found.threw
                      THEN /\ exitCode' = 1 /\ cpc' = "exited"
                           /\ UNCHANGED allResults
                      ELSE /\ allResults' =
                                allResults \o ResultsOf(found.files)
                           /\ UNCHANGED <<exitCode, cpc>>
         ELSE UNCHANGED <<allResults, exitCode, cpc>>
  /\ pathi' = pathi + 1
  /\ UNCHANGED <<args, dataDir, argi, paths>>

\* the paths are read: the exit code tells whether a result is invalid
Exit ==
  /\ cpc = "paths"
  /\ pathi > Len(paths)
  /\ exitCode' = IF \E i \in 1..Len(allResults) : ~allResults[i].valid
                   THEN 1 ELSE 0
  /\ cpc' = "exited"
  /\ UNCHANGED <<args, dataDir, argi, paths, pathi, allResults>>

CliNext ==
  \/ NextArg
       /\ UNCHANGED <<parserVars, validatorVars, fileVars, aggVars,
                      indexVars, rerunVars, abbrevVars, gateVars, fullVars>>
  \/ ArgsRead
       /\ UNCHANGED <<parserVars, validatorVars, fileVars, aggVars,
                      indexVars, rerunVars, abbrevVars, gateVars, fullVars>>
  \/ NextPath
       /\ UNCHANGED <<parserVars, validatorVars, fileVars, aggVars,
                      indexVars, rerunVars, abbrevVars, gateVars, fullVars>>
  \/ Exit
       /\ UNCHANGED <<parserVars, validatorVars, fileVars, aggVars,
                      indexVars, rerunVars, abbrevVars, gateVars, fullVars>>

SpecCli == CliInit /\ [][CliNext]_vars

----------------------------------------------------------------------------
(* One call of generateAbbreviation *)

\* the pieces a title is made of: " ", tab, no-break space, "of", "to",
\* "For", "a", "b", U+00DF
PartPool ==
  {<<32>>, <<9>>, <<160>>, <<111, 102>>, <<116, 111>>, <<70, 111, 114>>,
   <<97>>, <<98>>, <<223>>}

\* the strings made of at most MaxParts pieces
RECURSIVE Concat(_)
Concat(ps) == IF ps = <<>> THEN <<>> ELSE Head(ps) \o Concat(Tail(ps))

Titles == {Concat(ps) : ps \in BoundedSeq(PartPool, MaxParts)}

\* the values generateAbbreviation is called with
TitleValues ==
  {Str(t) : t \in Titles}
    \cup {Undefined, Number, [t |-> "null", v |-> <<>>], Arr(<<>>)}

AbbrevInit ==
  /\ ParserIdle /\ ValidatorIdle /\ FileIdle /\ AggIdle /\ IndexIdle
  /\ RerunIdle
  /\ GateIdle
  /\ FullIdle
  /\ CliIdle
  /\ gtitle \in TitleValues
  /\ gabbrev = <<>>
  /\ gpc = "called"

Generate ==
  /\ gpc = "called"
  /\ gabbrev' = generateAbbreviationOf(gtitle)
  /\ gpc' = "done"
  /\ UNCHANGED gtitle

AbbrevNext ==
  \/ Generate
       /\ UNCHANGED <<parserVars, validatorVars, fileVars, aggVars,
                      indexVars, rerunVars,
                      gateVars,
                      fullVars,
                      cliVars>>

SpecAbbrev == AbbrevInit /\ [][AbbrevNext]_vars

----------------------------------------------------------------------------
(* One call of isValidTerm *)

\* objects with any mix of present, missing and ill-typed fields
GateObjects ==
  [t : {"object"},
   title : {Undefined, Str(<<>>), Str(tTitle), Number, Arr(<<>>)},
   abbrev : {<<>>, tLatin},
   description : {<<>>, tLatin},
   tags : {Undefined, Str(tLatin), Arr(<<>>), Arr(<<tArabic>>)},
   arabicWords :
     {Undefined, Arr(<<>>),
      Arr(<<[word |-> <<>>, approvedBy |-> Undefined]>>)}]

\* a value that is no object: its properties are all undefined
Primitive(type) ==
  [t |-> type, title |-> Undefined, abbrev |-> <<>>, description |-> <<>>,
   tags |-> Undefined, arabicWords |-> Undefined]

\* the values isValidTerm is called with
GatePool ==
  GateObjects \cup {Primitive(type) : type \in {"null", "undefined", "number"}}

GateInit ==
  /\ ParserIdle /\ ValidatorIdle /\ FileIdle /\ AggIdle /\ IndexIdle
  /\ RerunIdle /\ AbbrevIdle
  /\ FullIdle
  /\ CliIdle
  /\ qterm \in GatePool
  /\ qvalid = FALSE
  /\ qpc = "called"

IsValidTermCall ==
  /\ qpc = "called"
  /\ qvalid' = isValidTerm(qterm)
  /\ qpc' = "done"
  /\ UNCHANGED qterm

GateNext ==
  \/ IsValidTermCall
       /\ UNCHANGED <<parserVars, validatorVars, fileVars, aggVars,
                      indexVars, rerunVars, abbrevVars,
                      fullVars,
                      cliVars>>

SpecGate == GateInit /\ [][GateNext]_vars

----------------------------------------------------------------------------
(* Claims about parseMarkdown *)

IsString(s) == s \in Seq(Nat)

IsTerm(r) ==
  /\ IsString(r.title) /\ IsString(r.abbrev) /\ IsString(r.description)
  /\ \A i \in 1..Len(r.tags) : IsString(r.tags[i])
  /\ \A i \in 1..Len(r.arabicWords) :
        /\ IsString(r.arabicWords[i].word)
        /\ \A j \in 1..Len(r.arabicWords[i].approvedBy) :
              IsString(r.arabicWords[i].approvedBy[j])

\* C1: parseMarkdown throws exactly when its argument is not a string; for a
\* string argument (the empty string and header-less text included) no line
\* makes it throw and what it returns is a Term.
C1_ThrowsIffNotString ==
  /\ pc = "thrown" => content.t # "string"
  /\ (content.t # "string" /\ pc # "start") => pc = "thrown"
  /\ pc = "done" => (content.t = "string" /\ IsTerm(result))

\* the empty string has been parsed and a Term returned
C1_Witness ==
  pc = "done" /\ content.t = "string" /\ n = 1 /\ line = <<>>
    /\ result = EmptyResult

LineChangesTitle ==
  /\ pc = "loop" /\ pc' = "loop"
  /\ (result'.title # result.title \/ result'.abbrev # result.abbrev)

\* C2 as stated: a line changes title or abbrev only if no H1 line was read
\* before it, i.e. only the first H1 line of the document sets them.
C2_OnlyFirstH1Line == [][LineChangesTitle => ~h1Seen]_vars

\* C2 amended: a line changes title or abbrev only if it is an H1 line the
\* title pattern matches and no such line was read before it; once the title
\* has been set no later line changes title or abbrev, and the post-pass
\* never changes title nor replaces a captured parenthetical abbrev.
C2_TitleLatch ==
  [][ /\ LineChangesTitle =>
           /\ ~h1Matched
           /\ IsH1(Trim(line'))
           /\ TitleMatch(Trim(line')).ok
           /\ result'.title = Trim(TitleMatch(Trim(line')).g1)
           /\ result'.abbrev = TitleMatch(Trim(line')).g2
      /\ (h1Matched /\ pc = "loop" /\ pc' = "loop") =>
           (result'.title = result.title /\ result'.abbrev = result.abbrev)
      /\ (pc = "loop" /\ pc' = "done") =>
           /\ result'.title = result.title
           /\ result.abbrev # <<>> => result'.abbrev = result.abbrev
    ]_vars

\* a second matching H1 line with another title has been read and the title
\* of the first one is still in place
C2_Witness ==
  /\ pc = "loop" /\ titleFound /\ n >= 2
  /\ IsH1(Trim(line)) /\ TitleMatch(Trim(line)).ok
  /\ result.title # Trim(TitleMatch(Trim(line)).g1)

----------------------------------------------------------------------------
(* Claims about the validator *)

\* content validity as the data model states it
ContentValid(term) ==
  /\ Len(term.description) > 0 /\ containsArabic(term.description)
  /\ Len(term.tags.v) >= 1
  /\ \A i \in 1..Len(term.tags.v) : containsArabic(term.tags.v[i])
  /\ Len(term.arabicWords.v) >= 1
  /\ \A i \in 1..Len(term.arabicWords.v) :
       LET aw == term.arabicWords.v[i]
       IN  /\ Len(aw.word) > 0
           /\ containsArabic(aw.word)
           /\ aw.approvedBy.t = "array"
           /\ Len(aw.approvedBy.v) >= 1

\* C3: for a term that passes the structural gate, validateTermStructure
\* returns no error exactly when the description is non-empty and Arabic,
\* there is a tag and all tags are Arabic, and there is a word and every word
\* is non-empty, Arabic and has an approver.
C3_NoErrorsIffContentValid ==
  (vpc # "called" /\ isValidTerm(vterm)) =>
     /\ vpc = "returned"
     /\ (verrors = <<>>) <=> ContentValid(vterm)

\* a term with two valid Arabic words has been validated without errors
C3_Witness ==
  /\ vpc = "returned" /\ isValidTerm(vterm) /\ verrors = <<>>
  /\ Len(vterm.arabicWords.v) = 2

sTitleMessage == "Missing or empty title (expected: # Title)"
sTagsMessage ==
  "Tags section missing or invalid (expected: ## Tags with list items)"
sWordsMessage ==
  "Arabic Words section missing or invalid (expected: # Arabic Words with ## Arabic Word subsections)"

\* the top-level fields the structural gate finds missing or invalid
BadFields(term) ==
  (IF term.title.t = "string" /\ Len(term.title.v) > 0
     THEN {} ELSE {sTitleMessage})
  \cup (IF term.tags.t = "array" THEN {} ELSE {sTagsMessage})
  \cup (IF term.arabicWords.t = "array" THEN {} ELSE {sWordsMessage})

\* C4: for a term (an object) that fails the structural gate,
\* validateTermStructure returns at least one error, exactly one per missing
\* or invalid field among title, tags and arabicWords, all of type
\* `required`, and none from the content checks.
C4_OneRequiredErrorPerBadField ==
  (vpc # "called" /\ vterm.t = "object" /\ ~isValidTerm(vterm)) =>
     /\ vpc = "returned"
     /\ Len(verrors) >= 1
     /\ Len(verrors) = Cardinality(BadFields(vterm))
     /\ {verrors[i].message.text : i \in 1..Len(verrors)} = BadFields(vterm)
     /\ \A i \in 1..Len(verrors) : verrors[i].type = "required"

Kind(e) == <<e.type, e.message.text, e.message.n>>

ExpectedDescription(term) ==
  IF Trim(term.description) = <<>>
    THEN << <<"required",
              "Missing or empty description (expected: ## Description with Arabic content)",
              0>> >>
  ELSE IF ~containsArabic(term.description)
    THEN << <<"content", "Description must be in Arabic", 0>> >>
  ELSE <<>>

ExpectedTags(term) ==
  IF term.tags.v = <<>>
    THEN << <<"required",
              "At least one tag is required (expected: - tagname in ## Tags section)",
              0>> >>
  ELSE IF \E i \in 1..Len(term.tags.v) : ~containsArabic(term.tags.v[i])
    THEN << <<"content", "All tags must be in Arabic. Non-Arabic tags: {arg}",
              0>> >>
  ELSE <<>>

\* what word number k owes: at most one of `is empty` / `must be in Arabic`,
\* then the approver error iff it has no approver
ExpectedWord(aw, k) ==
  (IF Trim(aw.word) = <<>>
     THEN << <<"required", "Arabic word #{n} is empty", k>> >>
   ELSE IF ~containsArabic(aw.word)
     THEN << <<"content", "Arabic word #{n} must be in Arabic: \"{arg}\"", k>> >>
   ELSE <<>>)
  \o (IF aw.approvedBy.t # "array" \/ aw.approvedBy.v = <<>>
        THEN << <<"required",
                  "Arabic word \"{arg}\" must have at least one approver (expected: ### Approved By with - username)",
                  0>> >>
        ELSE <<>>)

RECURSIVE ExpectedWords(_, _)
ExpectedWords(words, k) ==
  IF k > Len(words) THEN <<>>
  ELSE ExpectedWord(words[k], k) \o ExpectedWords(words, k + 1)

ExpectedArabicWords(term) ==
  IF term.arabicWords.v = <<>>
    THEN << <<"required",
              "At least one Arabic word is required (expected: ## Arabic Word in # Arabic Words section)",
              0>> >>
    ELSE ExpectedWords(term.arabicWords.v, 1)

\* C5: for a structurally valid term every content check runs, whatever the
\* earlier ones found: the errors are those of the description, then those of
\* the tags, then those of each word in document order, a word giving at most
\* one of `is empty` / `must be in Arabic` and, independently, the approver
\* error iff its approver list is empty.
C5_ChecksDoNotShortCircuit ==
  (vpc = "returned" /\ isValidTerm(vterm)) =>
     [i \in 1..Len(verrors) |-> Kind(verrors[i])]
       = ExpectedDescription(vterm) \o ExpectedTags(vterm)
           \o ExpectedArabicWords(vterm)

\* a Latin description, a Latin tag and one Latin word without approvers have
\* given four errors: content, content, content, required
C5_Witness ==
  /\ vpc = "returned" /\ isValidTerm(vterm)
  /\ Len(vterm.arabicWords.v) = 1
  /\ vterm.arabicWords.v[1].word = tLatin
  /\ vterm.arabicWords.v[1].approvedBy = Arr(<<>>)
  /\ Len(verrors) = 4
  /\ verrors[1].type = "content" /\ verrors[2].type = "content"
  /\ verrors[3].type = "content" /\ verrors[4].type = "required"

\* C6: validateFile never throws; in its result valid holds iff errors is
\* empty and data is present iff valid holds; a read failure (as any
\* exception of the parser) gives valid:false with exactly one error, of type
\* `format`.
C6_ValidateFileResult ==
  /\ fpc # "thrown"
  /\ fpc = "returned" =>
       /\ fresult.valid <=> (fresult.errors = <<>>)
       /\ fresult.hasData <=> fresult.valid
       /\ (~file.readable \/ parseMarkdown(Str(file.text)).threw) =>
            /\ ~fresult.valid
            /\ Len(fresult.errors) = 1
            /\ fresult.errors[1].type = "format"

\* a file that could not be read has been reported with one format error
C6_Witness ==
  /\ fpc = "returned" /\ ~file.readable
  /\ ~fresult.valid /\ ~fresult.hasData
  /\ Len(fresult.errors) = 1 /\ fresult.errors[1].type = "format"

\* a readable file has been found valid, with its data
C6_ValidReached ==
  fpc = "returned" /\ fresult.valid /\ fresult.hasData
    /\ fresult.data.tagsCount = 1 /\ fresult.data.arabicWordsCount = 1

----------------------------------------------------------------------------
(* Claims about aggregateApprovers *)

\* the places <<term, word, position>> of the argument where username stands
\* in an approvedBy list
OccurrencesOf(username) ==
  {<<i, j, k>> \in (1..Len(aggTerms)) \X (1..MaxItems) \X (1..MaxItems) :
     /\ ~Falsy(aggTerms[i].arabicWords)
     /\ j <= Len(aggTerms[i].arabicWords.v)
     /\ ~Falsy(aggTerms[i].arabicWords.v[j].approvedBy)
     /\ k <= Len(aggTerms[i].arabicWords.v[j].approvedBy.v)
     /\ aggTerms[i].arabicWords.v[j].approvedBy.v[k] = username}

\* the <<term, word>> entries whose approver list bears username
EntriesBearing(username) ==
  {<<i, j>> \in (1..Len(aggTerms)) \X (1..MaxItems) :
     \E k \in 1..MaxItems : <<i, j, k>> \in OccurrencesOf(username)}

OccurringUsernames == {u \in Usernames : OccurrencesOf(u) # {}}

\* one entry per occurring username, its count the number of occurrences
OneEntryPerUsername ==
  /\ Len(approvers) = Cardinality(OccurringUsernames)
  /\ \A i \in 1..Len(approvers) :
       /\ approvers[i].username \in OccurringUsernames
       /\ approvers[i].approveCount =
            Cardinality(OccurrencesOf(approvers[i].username))
  /\ \A u \in OccurringUsernames :
       \E i \in 1..Len(approvers) : approvers[i].username = u

\* C7 as stated, the order read as the spec words it ("default lexicographic
\* comparison"): when aggregateApprovers has returned, the result has one
\* entry per occurring username, counting its occurrences, in ascending
\* code-unit order of the usernames.
C7_SortedLexicographically ==
  apc = "done" =>
    /\ OneEntryPerUsername
    /\ \A i \in 1..Len(approvers), j \in 1..Len(approvers) :
         i < j => LexCompare(approvers[i].username, approvers[j].username) < 0

\* C7 amended: when aggregateApprovers has returned, the result has exactly
\* one entry per username occurring in an approvedBy list, its approveCount
\* the number of occurrences (repetitions on one word included); terms without
\* arabicWords and words without approvedBy add nothing; the empty list gives
\* the empty result; and the entries ascend in the order of
\* username.localeCompare, the collation of the default locale, in which
\* "amy" precedes "Zed".
C7_SortedByLocaleCompare ==
  apc = "done" =>
    /\ OneEntryPerUsername
    /\ (aggTerms = <<>> => approvers = <<>>)
    /\ \A i \in 1..Len(approvers), j \in 1..Len(approvers) :
         i < j => localeCompare(approvers[i].username,
                                approvers[j].username, sDefaultLocale) < 0

\* a call that has returned two entries in an order other than the Map's,
\* one of them counted twice on one word, after a term without arabicWords
\* and a word without approvedBy
C7_Witness ==
  /\ apc = "done"
  /\ Len(approvers) >= 2
  /\ approvers # approverCounts
  /\ \E i \in 1..Len(aggTerms) : Falsy(aggTerms[i].arabicWords)
  /\ \E u \in Usernames :
       Cardinality(OccurrencesOf(u)) > Cardinality(EntriesBearing(u))

\* C8: when aggregateApprovers has returned, every entry's approveCount is
\* the number of distinct (term, arabicWord) entries whose approver list
\* bears the username.
C8_CountsDistinctEntries ==
  apc = "done" =>
    \A i \in 1..Len(approvers) :
      approvers[i].approveCount =
        Cardinality(EntriesBearing(approvers[i].username))

----------------------------------------------------------------------------
(* Claims about generateIndex and generateCategoriesIndex *)

\* the Term parseMarkdown gives for the text of a file
ParsedTerm(f) == TermOf(parseMarkdown(Str(f.text)).term)

\* a direct child file whose name ends with ".md" and whose parse passes
\* the structural gate
PassesGate(entry) ==
  /\ entry.isFile
  /\ Len(entry.name) >= 3
  /\ SubSeq(entry.name, Len(entry.name) - 2, Len(entry.name)) = <<46, 109, 100>>
  /\ entry.file.readable
  /\ isValidTerm(ParsedTerm(entry.file))

\* the TermIndex entry the claim gives such a file
ExpectedTermIndex(entry) ==
  [slug |-> SubSeq(entry.name, 1, Len(entry.name) - 3),
   title |-> ParsedTerm(entry.file).title.v,
   hasAbbrev |-> ParsedTerm(entry.file).abbrev # <<>>,
   abbrev |-> ParsedTerm(entry.file).abbrev]

\* C9: when generateIndex has returned, its terms hold exactly one entry for
\* each listed file whose name ends with ".md" and whose parse passes the
\* gate, and no other; the entry has the file name without ".md" as slug, the
\* parsed title, and the abbrev key iff the parsed abbrev is non-empty; and
\* no entry of the listing, whatever it is, makes the run throw.
C9_OneEntryPerValidFile ==
  /\ (imode = "index" /\ listing # <<>> => ipc # "thrown")
  /\ (imode = "index" /\ ipc = "done" =>
        LET passing == {i \in 1..Len(listing) : PassesGate(listing[i])}
        IN  /\ Len(terms) = Cardinality(passing)
            /\ \A i \in passing :
                 \E k \in 1..Len(terms) : terms[k] = ExpectedTermIndex(listing[i])
            /\ \A k \in 1..Len(terms) :
                 \E i \in passing : terms[k] = ExpectedTermIndex(listing[i]))

\* generateIndex has returned an entry with the abbrev key and one without,
\* having skipped an entry of the listing
C9_Witness ==
  /\ imode = "index" /\ ipc = "done"
  /\ \E k \in 1..Len(terms) : terms[k].hasAbbrev
  /\ \E k \in 1..Len(terms) : ~terms[k].hasAbbrev
  /\ \E i \in 1..Len(listing) : ~PassesGate(listing[i])

\* the arrays of TermIndex entries that have been returned
ReturnedTermLists ==
  IF ipc # "done" THEN {}
  ELSE IF imode = "index" THEN {terms}
  ELSE {categories[c].terms : c \in 1..Len(categories)}

\* C10 as stated, "compare greater" read as the spec words the sort ("default
\* lexicographic (non-locale-specialized) comparison"): in every returned
\* terms array no title is greater, code unit by code unit, than the next.
C10_SortedLexicographically ==
  \A ts \in ReturnedTermLists :
    \A k \in 1..Len(ts) - 1 : LexCompare(ts[k].title, ts[k + 1].title) <= 0

\* C10 amended: in the terms array generateIndex returns, and in the terms
\* array of every category of the RootIndex, no title compares greater than
\* the next under title.localeCompare, the collation of the default locale,
\* in which "apple pie" precedes "Zed".
C10_SortedByLocaleCompare ==
  \A ts \in ReturnedTermLists :
    \A k \in 1..Len(ts) - 1 :
      localeCompare(ts[k].title, ts[k + 1].title, sDefaultLocale) <= 0

\* a returned terms array of generateIndex that the sort has reordered, and
\* a returned category whose terms array holds several titles
C10_Witness ==
  /\ ipc = "done"
  /\ \/ /\ imode = "index"
        /\ Len(terms) >= 2
        /\ \E i, j \in 1..Len(listing), a, b \in 1..Len(terms) :
             /\ i < j /\ a < b
             /\ PassesGate(listing[i]) /\ PassesGate(listing[j])
             /\ terms[a] = ExpectedTermIndex(listing[j])
             /\ terms[b] = ExpectedTermIndex(listing[i])
     \/ /\ imode = "categories"
        /\ \E c \in 1..Len(categories) : Len(categories[c].terms) >= 3

\* C11: two calls of generateIndex on the same directory contents return the
\* same terms array, whatever order each listing yields the entries in.
C11_SameTermsOnRerun ==
  rpc = "done" => secondTerms = firstTerms

\* the files of a listed subdirectory that parsed successfully
ValidFiles(entry) ==
  {j \in 1..Len(entry.dir.entries) : PassesGate(entry.dir.entries[j])}

\* the listed subdirectories
ListedDirectories == {i \in 1..Len(listing) : listing[i].isDirectory}

\* the RootIndex has been returned
RootIndexReturned == imode = "categories" /\ ipc = "done"

\* C12: in a returned RootIndex every category entry stands for a listed
\* subdirectory, its termsCount is at least 1, is the length of its terms and
\* is the number of files of the subdirectory that parsed successfully; a
\* subdirectory without a valid term has no entry.
C12_TermsCount ==
  RootIndexReturned =>
    /\ \A c \in 1..Len(categories) :
         /\ categories[c].termsCount >= 1
         /\ categories[c].termsCount = Len(categories[c].terms)
         /\ \E i \in ListedDirectories :
              /\ listing[i].name = categories[c].path
              /\ categories[c].termsCount = Cardinality(ValidFiles(listing[i]))
    /\ \A i \in ListedDirectories :
         ValidFiles(listing[i]) = {} =>
           \A c \in 1..Len(categories) : categories[c].path # listing[i].name

\* a returned RootIndex with a category that has fewer terms than its
\* subdirectory has entries, a listed subdirectory without valid terms
\* having been left out
C12_Witness ==
  /\ RootIndexReturned
  /\ \E c \in 1..Len(categories), i \in ListedDirectories :
       /\ listing[i].name = categories[c].path
       /\ categories[c].termsCount < Len(listing[i].dir.entries)
  /\ \E i \in ListedDirectories :
       /\ listing[i].dir.entries # <<>>
       /\ ValidFiles(listing[i]) = {}

\* the places <<file, word, position>> of a subdirectory where username
\* stands in the approver list of a word of a valid term file
ApprovalsIn(entry, username) ==
  UNION {
    UNION {
      {<<j, w, k>> :
         k \in {k \in 1..Len(ParsedTerm(entry.dir.entries[j].file)
                               .arabicWords.v[w].approvedBy.v) :
                  ParsedTerm(entry.dir.entries[j].file)
                    .arabicWords.v[w].approvedBy.v[k] = username}} :
      w \in 1..Len(ParsedTerm(entry.dir.entries[j].file).arabicWords.v)} :
    j \in ValidFiles(entry)}

\* the Terms of the valid term files of a subdirectory, in listing order
ValidTerms(entry) ==
  [k \in 1..Cardinality(ValidFiles(entry)) |->
     ParsedTerm(entry.dir.entries[
       CHOOSE j \in ValidFiles(entry) :
         Cardinality({h \in ValidFiles(entry) : h <= j}) = k].file)]

\* the usernames the term files of the directories of RootPool carry
CategoryUsernames == {sAmy, sBob}

\* C13: in a returned RootIndex the approvers of a category entry are
\* aggregateApprovers of the Terms of that category's own valid term files:
\* the usernames approving words of these files, each with the number of its
\* approvals in that category alone, whatever the other categories hold.
C13_ApproversPerCategory ==
  RootIndexReturned =>
    \A c \in 1..Len(categories) :
      \E i \in ListedDirectories :
        /\ listing[i].name = categories[c].path
        /\ categories[c].approvers = aggregateApprovers(ValidTerms(listing[i]))
        /\ Len(categories[c].approvers) =
             Cardinality({u \in CategoryUsernames :
                            ApprovalsIn(listing[i], u) # {}})
        /\ \A a \in 1..Len(categories[c].approvers) :
             /\ categories[c].approvers[a].username \in CategoryUsernames
             /\ categories[c].approvers[a].approveCount =
                  Cardinality(ApprovalsIn(listing[i],
                                          categories[c].approvers[a].username))
             /\ \A b \in 1..Len(categories[c].approvers) :
                  a # b => categories[c].approvers[a].username
                             # categories[c].approvers[b].username

\* a returned RootIndex in which one username has different counts in two
\* categories
C13_Witness ==
  /\ RootIndexReturned
  /\ \E c, d \in 1..Len(categories) :
       \E a \in 1..Len(categories[c].approvers),
          b \in 1..Len(categories[d].approvers) :
         /\ c # d
         /\ categories[c].approvers[a].username
              = categories[d].approvers[b].username
         /\ categories[c].approvers[a].approveCount
              # categories[d].approvers[b].approveCount

\* C14: an I/O failure on one term file or on the listing of one category
\* subdirectory aborts only that file or category: once the root directory
\* has begun to yield entries the run does not throw, and a returned
\* RootIndex holds every listed subdirectory that could be listed and has a
\* valid term file, whatever failed beside it.
C14_FailuresAreContained ==
  /\ (listing # <<>> => ipc # "thrown")
  /\ (RootIndexReturned =>
        \A i \in ListedDirectories :
          listing[i].dir.readable /\ ValidFiles(listing[i]) # {} =>
            \E c \in 1..Len(categories) : categories[c].path = listing[i].name)

\* meta.json exists, parses and has a (non-empty) name
MetaUsable(metaFile) ==
  metaFile.readable /\ metaFile.parses /\ metaFile.name.t = "string"
    /\ metaFile.name.v # <<>>

----------------------------------------------------------------------------
(* Claims about the sections of parseMarkdown *)

\* the line just read is `### Approved By`, read while no Arabic word had
\* been declared (the heading leaves currentArabicWord as it was)
OrphanApprovedBy ==
  pc = "loop" /\ n >= 1 /\ Trim(line) = sApprovedBy /\ currentArabicWord = 0

\* the step reads a line
ReadsLine == pc = "loop" /\ pc' = "loop" /\ n' = n + 1

\* the step reads a `- ` list item
ReadsListItem == ReadsLine /\ StartsWith(Trim(line'), sDash)

\* the text of the list item the step reads
ItemRead == Trim(SubSeq(Trim(line'), 3, Len(Trim(line'))))

IsUnknownHeading(trimmed) ==
  StartsWith(trimmed, sH2) /\ trimmed \notin {sDescription, sTags}

\* the line just read is such a heading, read outside the Arabic Words
\* section (where it would have declared a word and left the parser in
\* ArabicWords state)
UnknownHeading ==
  /\ pc = "loop" /\ n >= 1
  /\ IsUnknownHeading(Trim(line))
  /\ currentSection # "ArabicWords"

\* C17 as stated: a list item read right after an unrecognised `## `
\* heading outside the Arabic Words section is added neither to tags nor to
\* an approver list, whichever section preceded the heading.
C17_UnknownSectionSkipped ==
  [][UnknownHeading /\ ReadsListItem =>
       /\ result'.tags = result.tags
       /\ result'.arabicWords = result.arabicWords]_vars

\* C17 amended: an unrecognised `## ` heading read outside the Arabic Words
\* section changes the section state only from Description, to Unknown, and
\* changes neither tags nor arabicWords; a list item read right after it is
\* never added to an approver list, and is added to tags exactly when the
\* heading was read in Tags state, which it left in force.
C17_UnknownSectionOnlyAfterDescription ==
  [][/\ ((ReadsLine /\ IsUnknownHeading(Trim(line'))
            /\ currentSection \notin {"ArabicWords", "ApprovedBy"}) =>
           /\ currentSection' = IF currentSection = "Description"
                                  THEN "Unknown" ELSE currentSection
           /\ result'.tags = result.tags
           /\ result'.arabicWords = result.arabicWords)
     /\ (UnknownHeading /\ ReadsListItem =>
           /\ result'.arabicWords = result.arabicWords
           /\ result'.tags = IF currentSection = "Tags"
                               THEN Append(result.tags, ItemRead)
                               ELSE result.tags)]_vars

\* an unknown heading has just ended a Description section, after a tag
\* had been read
C17_Witness ==
  UnknownHeading /\ currentSection = "Unknown" /\ result.tags # <<>>

\* a line that opens a section: a `# ` or `## ` heading, or `### Approved By`
SectionHeader(trimmed) ==
  StartsWith(trimmed, sH1) \/ StartsWith(trimmed, sH2) \/ trimmed = sApprovedBy

\* the step reads a non-blank line of the Description section
ReadsDescriptionLine ==
  /\ ReadsLine
  /\ currentSection = "Description"
  /\ Trim(line') # <<>>
  /\ ~SectionHeader(Trim(line'))

----------------------------------------------------------------------------
(* Claims about the abbreviation *)

\* the positions at which a whitespace-separated token of s starts
TokenStarts(s) ==
  {i \in 1..Len(s) : ~IsWs(s[i]) /\ (i = 1 \/ IsWs(s[i - 1]))}

\* the token of s that starts at position i
TokenAt(s, i) ==
  SubSeq(s, i, SetMax({j \in i..Len(s) : \A k \in i..j : ~IsWs(s[k])}))

\* the text of the trailing parenthetical of a trimmed `# ` line: what
\* stands between the first "(" that has text before it and no ")" after it
\* but the last character of the line, and that final ")"; empty when the
\* line carries none
Parenthetical(trimmed) ==
  LET body  == SubSeq(trimmed, 3, Len(trimmed))
      Opens == {a \in 2..(Len(body) - 2) :
                  /\ body[a] = 40
                  /\ body[Len(body)] = 41
                  /\ \A j \in (a + 1)..(Len(body) - 1) : body[j] # 41}
  IN  IF Opens = {} THEN <<>>
      ELSE SubSeq(body, SetMin(Opens) + 1, Len(body) - 1)

\* the step reads the line that sets the title
ReadsTitleLine == ReadsLine /\ ~titleFound /\ titleFound'

\* the step is the return of parseMarkdown
Returns == pc = "loop" /\ pc' = "done"

\* C19: the line that sets the title sets abbrev to the text of its
\* parenthetical, verbatim, or to the empty string when it has none; no
\* other line changes abbrev; on return, a non-empty abbrev is kept, and an
\* empty one becomes generateAbbreviation(title) when the title has more
\* than one whitespace-separated word and stays empty otherwise (one word,
\* or no title).
C19_AbbreviationPostPass ==
  [][/\ (ReadsTitleLine => result'.abbrev = Parenthetical(Trim(line')))
     /\ (ReadsLine /\ ~ReadsTitleLine => result'.abbrev = result.abbrev)
     /\ (pc = "loop" /\ ~titleFound =>
           result.abbrev = <<>> /\ result.title = <<>>)
     /\ (Returns =>
           /\ result'.title = result.title
           /\ result'.abbrev =
                IF result.abbrev # <<>> THEN result.abbrev
                ELSE IF Cardinality(TokenStarts(result.title)) > 1
                  THEN generateAbbreviation(result.title)
                ELSE <<>>)]_vars

\* a title of two words read without a parenthetical has been returned with
\* the abbreviation generated from it
C19_Witness ==
  /\ pc = "done"
  /\ titleFound
  /\ result.title = <<111, 102, 32, 66>>
  /\ result.abbrev = <<79, 66>>
  /\ n > 1

\* the starts of the tokens of s whose lower-case form is no stop word
NonStopStarts(s) ==
  {i \in TokenStarts(s) : ToLower(TokenAt(s, i)) \notin ignoreWords}

\* the k-th smallest element of a set of numbers
Nth(S, k) == CHOOSE x \in S : Cardinality({y \in S : y < x}) = k - 1

\* the upper-cased first characters of the non-stop tokens of s, in token
\* order, concatenated
UpperInitials(s) ==
  Concat([k \in 1..Cardinality(NonStopStarts(s)) |->
            ToUpperCase(<<s[Nth(NonStopStarts(s), k)]>>)])

\* "of" and "to" are not stop words
OfAndToContribute ==
  <<111, 102>> \notin ignoreWords /\ <<116, 111>> \notin ignoreWords

\* C20 as stated: generateAbbreviation(title) is the concatenation, in
\* token order, of the upper-cased first character of every
\* whitespace-separated token of title whose lower-case form is no stop
\* word, "of" and "to" being no stop words; its length is the number of
\* these tokens; it is empty for an empty, whitespace-only or non-string
\* title.
C20_InitialsOfNonStopWords ==
  gpc = "done" =>
    /\ OfAndToContribute
    /\ gtitle.t # "string" => gabbrev = <<>>
    /\ gtitle.t = "string" =>
         /\ gabbrev = UpperInitials(gtitle.v)
         /\ Len(gabbrev) = Cardinality(NonStopStarts(gtitle.v))
         /\ (Trim(gtitle.v) = <<>> => gabbrev = <<>>)

\* C20 amended: generateAbbreviation(title) is the concatenation, in token
\* order, of the upper-cased first character (code unit) of every
\* whitespace-separated token of title whose lower-case form is no stop
\* word, "of" and "to" being no stop words; it is empty for an empty,
\* whitespace-only or non-string title. Its length is at least the number
\* of these tokens, and equals it when the upper case of every such first
\* character is a single code unit; the upper case of U+00DF is "SS".
C20_InitialsMayExpand ==
  gpc = "done" =>
    /\ OfAndToContribute
    /\ gtitle.t # "string" => gabbrev = <<>>
    /\ gtitle.t = "string" =>
         /\ gabbrev = UpperInitials(gtitle.v)
         /\ Len(gabbrev) >= Cardinality(NonStopStarts(gtitle.v))
         /\ ((\A i \in NonStopStarts(gtitle.v) :
                Len(ToUpperCase(<<gtitle.v[i]>>)) = 1)
               => Len(gabbrev) = Cardinality(NonStopStarts(gtitle.v)))
         /\ (Trim(gtitle.v) = <<>> => gabbrev = <<>>)

\* "<U+00DF><tab>of" has been abbreviated to "SSO"
C20_Witness ==
  /\ gpc = "done"
  /\ gtitle = Str(<<223, 9, 111, 102>>)
  /\ gabbrev = <<83, 83, 79>>


----------------------------------------------------------------------------
(* Claims about isValidTerm *)

\* what the result may depend on: whether the value is null or undefined,
\* the title, and whether tags and arabicWords are arrays
GateView(term) ==
  <<term.t \in {"null", "undefined"}, term.title,
    term.tags.t = "array", term.arabicWords.t = "array">>

\* C21: isValidTerm(term) is true exactly when term is neither null nor
\* undefined, its title is a non-empty string, and its tags and its
\* arabicWords are arrays; two values that differ only in the contents of
\* tags and arabicWords, in description and in abbrev get the same result.
C21_StructuralGate ==
  qpc = "done" =>
    /\ qvalid <=> /\ qterm.t \notin {"null", "undefined"}
                  /\ qterm.title.t = "string" /\ qterm.title.v # <<>>
                  /\ qterm.tags.t = "array"
                  /\ qterm.arabicWords.t = "array"
    /\ \A other \in GatePool :
         GateView(other) = GateView(qterm) => isValidTerm(other) = qvalid

\* a term with a title, no tags, no words, no description and no
\* abbreviation has passed the gate
C21_Witness ==
  /\ qpc = "done" /\ qvalid
  /\ qterm.tags = Arr(<<>>) /\ qterm.arabicWords = Arr(<<>>)
  /\ qterm.description = <<>> /\ qterm.abbrev = <<>>


----------------------------------------------------------------------------
(* Claims about main --full *)

\* the categories of the categories.json written last
WrittenCategories == writes[Len(writes)].categories

DistinctTitles(ts) ==
  \A i, j \in 1..Len(ts) : i # j => ts[i].title # ts[j].title

----------------------------------------------------------------------------
(* Claims about the validation CLI *)

\* --help or -h is among the arguments
HelpGiven == \E i \in 1..Len(args) : args[i] \in {sHelp, sH}

\* the paths given on the command line, ./data when there is none
GivenPaths ==
  LET given == SelectSeq(args, LAMBDA a : ~StartsWith(a, <<45>>))
  IN  IF given = <<>> THEN <<sDotData>> ELSE given

\* the directories a scan of d lists: d, and the directories of those
\* among them that can be listed, but for hidden ones and node_modules
RECURSIVE ScannedDirectories(_)
ScannedDirectories(d) ==
  {d} \cup
    UNION {ScannedDirectories(d.entries[i].dir) :
             i \in {j \in 1..Len(d.entries) :
                      /\ d.entries[j].isDirectory
                      /\ ~StartsWith(d.entries[j].name, <<46>>)
                      /\ d.entries[j].name # sNodeModules}}

\* accessing or scanning the path fails: nothing is there, or it is a
\* directory and one of the directories scanned cannot be listed
AccessFails(path) ==
  \/ StatOf(path).kind = "missing"
  \/ /\ StatOf(path).kind = "directory"
     /\ \E d \in ScannedDirectories(StatOf(path).dir) : ~d.readable

\* C23: the validation CLI exits with 0 or 1, and with 1 exactly when help
\* was not asked for and a validated file has errors or accessing or
\* scanning one of the given paths fails; so it exits with 0 when there is
\* no file to validate and when help is asked for.
C23_ExitCode ==
  cpc = "exited" =>
    /\ exitCode \in {0, 1}
    /\ exitCode = 1 <=>
         /\ ~HelpGiven
         /\ \/ \E i \in 1..Len(allResults) : allResults[i].errors # <<>>
            \/ \E i \in 1..Len(GivenPaths) : AccessFails(GivenPaths[i])

\* the CLI has exited with 1 after validating files, all of them valid:
\* a later path could not be scanned
C23_Witness ==
  /\ cpc = "exited"
  /\ exitCode = 1
  /\ allResults # <<>>
  /\ \A i \in 1..Len(allResults) : allResults[i].valid


----------------------------------------------------------------------------
(* Claims about the Arabic Words section of parseMarkdown *)

\* C24: a line that is exactly `# Arabic Words` once trimmed leaves the
\* parser in ArabicWords state, whatever state it was in and whether or not
\* a title has been found.
C24_ArabicWordsEntered ==
  [][ReadsLine /\ Trim(line') = sArabicWords =>
       currentSection' = "ArabicWords"]_vars

\* the step reads a `## ` line while the parser is in ArabicWords or
\* ApprovedBy state
ReadsH2AmongWords ==
  /\ ReadsLine
  /\ currentSection \in {"ArabicWords", "ApprovedBy"}
  /\ StartsWith(Trim(line'), sH2)

\* the word a `## ` heading declares: its text without the prefix, trimmed,
\* and no approver
WordOf(trimmed) ==
  [word |-> Trim(SubSeq(trimmed, Len(sH2) + 1, Len(trimmed))),
   approvedBy |-> <<>>]

\* C25 as stated: in ArabicWords or ApprovedBy state every line that starts
\* with `## ` appends exactly one word, with the text of the heading and no
\* approver, and leaves the parser in ArabicWords state.
C25_EveryH2IsAWord ==
  [][ReadsH2AmongWords =>
       /\ result'.arabicWords =
            Append(result.arabicWords, WordOf(Trim(line')))
       /\ currentSection' = "ArabicWords"]_vars

\* C25 amended: in ArabicWords or ApprovedBy state every line that starts
\* with `## `, other than `## Description` and `## Tags`, appends exactly one
\* word, with the text of the heading and no approver, makes it the current
\* word and leaves the parser in ArabicWords state; `## Description` and
\* `## Tags` open their section and declare no word. Words are appended at
\* the end, so they stand in document order.
C25_EveryOtherH2IsAWord ==
  [][ReadsH2AmongWords =>
       IF Trim(line') \in {sDescription, sTags}
         THEN /\ result'.arabicWords = result.arabicWords
              /\ currentSection' =
                   IF Trim(line') = sTags THEN "Tags" ELSE "Description"
         ELSE /\ result'.arabicWords =
                   Append(result.arabicWords, WordOf(Trim(line')))
              /\ currentArabicWord' = Len(result'.arabicWords)
              /\ currentSection' = "ArabicWords"]_vars

\* a second word has just been declared
C25_Witness ==
  /\ pc = "loop"
  /\ Len(result.arabicWords) = 2
  /\ currentArabicWord = 2
  /\ currentSection = "ArabicWords"
  /\ StartsWith(Trim(line), sH2)

\* C26: a `- ` list item leaves the section state, the title latch and the
\* current word as they are; in Tags state it appends its text to tags, in
\* ApprovedBy state it appends it to the approvers of the current word,
\* which is the word declared last, and in every other state it changes
\* nothing; no other field of the Term changes.
C26_ListItemEffect ==
  [][ReadsListItem =>
       /\ currentSection' = currentSection
       /\ currentArabicWord' = currentArabicWord
       /\ titleFound' = titleFound
       /\ result' =
            IF currentSection = "Tags"
              THEN [result EXCEPT !.tags = Append(@, ItemRead)]
            ELSE IF currentSection = "ApprovedBy"
              THEN [result EXCEPT
                      !.arabicWords[Len(result.arabicWords)].approvedBy =
                        Append(@, ItemRead)]
            ELSE result]_vars

\* an approver has just been added to the current word
C26_Witness ==
  /\ pc = "loop"
  /\ currentSection = "ApprovedBy"
  /\ StartsWith(Trim(line), sDash)
  /\ result.arabicWords[currentArabicWord].approvedBy # <<>>

\* the step reads a blank line
ReadsBlankLine == ReadsLine /\ Trim(line') = <<>>

\* C27 as stated: a blank line read in Description state after some text is
\* kept as a line break: it adds to the accumulated description, so that
\* `A`, blank, `B` and `A`, `B` give different descriptions.
C27_BlankLineKept ==
  [][/\ ReadsBlankLine
     /\ currentSection = "Description"
     /\ result.description # <<>>
     => result'.description # result.description]_vars

\* C27 amended: a blank line changes nothing in any state, Description
\* included: the Term, the section state, the current word and the title
\* latch stay as they were, so that `A`, blank, `B` and `A`, `B` give the
\* same description, `A` and `B` joined by one newline.
C27_BlankLineDropped ==
  [][ReadsBlankLine =>
       /\ result' = result
       /\ currentSection' = currentSection
       /\ currentArabicWord' = currentArabicWord
       /\ titleFound' = titleFound]_vars

\* a blank line has just been read in Description state, after some text
C27_Witness ==
  /\ pc = "loop"
  /\ n >= 1
  /\ Trim(line) = <<>>
  /\ currentSection = "Description"
  /\ result.description # <<>>

\* s is t, or t without some of its last elements
GrownFrom(s, t) == Len(s) <= Len(t) /\ SubSeq(t, 1, Len(s)) = s

\* the current word and the words parsed so far
CurrentWordIsLast ==
  /\ currentSection = "ApprovedBy" => currentArabicWord # 0
  /\ currentArabicWord # 0 <=> result.arabicWords # <<>>
  /\ currentArabicWord = Len(result.arabicWords)

\* what a line can do to the tags and the words
OnlyGrows ==
  LET words == result.arabicWords
      after == result'.arabicWords
  IN  /\ GrownFrom(result.tags, result'.tags)
      /\ Len(after) >= Len(words)
      /\ \A i \in 1..Len(words) :
           /\ after[i].word = words[i].word
           /\ GrownFrom(words[i].approvedBy, after[i].approvedBy)
           /\ i < Len(after) => after[i].approvedBy = words[i].approvedBy

\* C28: while parseMarkdown runs and when it has returned, in ApprovedBy
\* state there is a current word, there is a current word exactly when
\* arabicWords is not empty, and it is the last element of arabicWords;
\* every line leaves the tags and the words it found in place, adding at
\* most at the end of tags, of arabicWords and of the approvers of the word
\* that is last after the line.
C28_ParserStateInvariant ==
  /\ [](pc \in {"loop", "done"} => CurrentWordIsLast)
  /\ [][ReadsLine => OnlyGrows]_vars

\* the approver heading of a second word has been read
C28_Witness ==
  /\ pc = "loop"
  /\ currentSection = "ApprovedBy"
  /\ Len(result.arabicWords) = 2
  /\ currentArabicWord = 2


----------------------------------------------------------------------------
(* Claims about parseMarkdown and the validator together *)

NonEmptyTrimmed(s) == s # <<>> /\ Trim(s) = s

\* the Term parseMarkdown returns for the file
ParsedFile == parseMarkdown(Str(file.text)).term

\* sub occurs in s
Contains(s, sub) ==
  \E i \in 1..(Len(s) - Len(sub) + 1) : SubSeq(s, i, i + Len(sub) - 1) = sub

\* C29: every tag, every word and every approver of the Term parsed from a
\* file is a non-empty string without leading or trailing white space, and
\* validateFile reports no `Arabic word #N is empty` error.
C29_ItemsNonEmptyTrimmed ==
  (fpc = "returned" /\ file.readable) =>
    LET term == ParsedFile
    IN  /\ \A i \in 1..Len(term.tags) : NonEmptyTrimmed(term.tags[i])
        /\ \A i \in 1..Len(term.arabicWords) :
             /\ NonEmptyTrimmed(term.arabicWords[i].word)
             /\ \A j \in 1..Len(term.arabicWords[i].approvedBy) :
                  NonEmptyTrimmed(term.arabicWords[i].approvedBy[j])
        /\ \A i \in 1..Len(fresult.errors) :
             fresult.errors[i].message.text # "Arabic word #{n} is empty"

\* a file with a padded word, a padded approver and an approver item of
\* white space alone has been validated
C29_Witness ==
  /\ fpc = "returned"
  /\ file.readable
  /\ Contains(file.text, sH2 \o sPadding)
  /\ Contains(file.text, sApprovedBy \o nl \o sBareItem)
  /\ Len(ParsedFile.arabicWords) = 1
  /\ Len(ParsedFile.arabicWords[1].approvedBy) = 1


\* C30: the Term parsed from a file passes isValidTerm iff its title is
\* non-empty; a file whose content yields no title is reported invalid with
\* exactly one error, the `required` title error, and parseTermFile returns
\* null for it.
C30_TitleAloneDecides ==
  (fpc = "returned" /\ file.readable) =>
    LET parsed == parseMarkdown(Str(file.text))
    IN  /\ ~parsed.threw
        /\ isValidTerm(TermOf(parsed.term)) <=> (parsed.term.title # <<>>)
        /\ (parsed.term.title = <<>>) =>
             /\ ~fresult.valid
             /\ ~fresult.hasData
             /\ Len(fresult.errors) = 1
             /\ fresult.errors[1].type = "required"
             /\ fresult.errors[1].message = Message(sTitleMessage)
             /\ parseTermFile(file) = NullTerm

\* a file without a title, with a Latin description and a Latin tag, has been
\* reported with the title error alone
C30_Witness ==
  /\ fpc = "returned"
  /\ file.readable
  /\ ParsedFile.title = <<>>
  /\ ParsedFile.description = tLatin
  /\ ParsedFile.tags = <<tLatin>>
  /\ Len(fresult.errors) = 1
  /\ fresult.errors[1].type = "required"

\* the empty file has been reported with the title error alone
C30_EmptyFile ==
  /\ fpc = "returned"
  /\ file = FileWith(<<>>)
  /\ Len(fresult.errors) = 1
  /\ fresult.errors[1].message = Message(sTitleMessage)

====
